---------------------------- MODULE Spec2Model ----------------------------
(***************************************************************************)
(* Multi-version trade routing of the swap front end:                      *)
(*   useMultiVersionTrade (src/src/utils/addressUtils.ts),                 *)
(*   useV4Trade           (src/src/hooks/useV4Trade.ts),                   *)
(*   useV3Trade           (src/src/hooks/useWeb3.ts),                      *)
(*   useToken             (src/unnamed/part_003),                          *)
(*   executeV4Swap        (src/src/utils/v4UniversalRouter.ts).            *)
(*                                                                         *)
(* JavaScript runs one task at a time: the code between two awaits on the  *)
(* network is one atomic step.  Awaits on promises that are already        *)
(* settled (an async function that threw before its first network call)    *)
(* run as microtasks before any other network answer is handled, so they   *)
(* belong to the step that precedes them.  Every action below is one such  *)
(* step: "a network answer arrives, the code runs up to the next network   *)
(* call".                                                                  *)
(***************************************************************************)
EXTENDS Integers, Sequences, FiniteSets, TLC

(***************************************************************************)
(* Bounds of the model.                                                    *)
(***************************************************************************)
\* number of calculateTrade requests that may be in flight together
MaxReq == 2
\* largest raw amount the quoter answers in the routing specification
MaxQuote == 1
\* seconds of waiting the timed specification counts
MaxWait == 12

(***************************************************************************)
(* Program constants.                                                      *)
(***************************************************************************)
DEFAULT_SLIPPAGE == 50
MIN_LIQUIDITY_THRESHOLD == 1000
\* setTimeout(() => reject(new Error('Token info request timed out')), 10000)
TimeoutSeconds == 10

Req == 1..MaxReq

\* JavaScript null, for strings (error, version)
Null == "null"

\* FeeAmount of @uniswap/v3-sdk
LOWEST == 100
LOW == 500
MEDIUM == 3000
HIGH == 10000

\* a plausible slip: the tiers are tried in the order of FEE_TIERS of
\* constants.ts, lowest fee first
feeTiersAscending == <<LOWEST, LOW, MEDIUM, HIGH>>

\* const feeTiers = [FeeAmount.MEDIUM, FeeAmount.LOW, FeeAmount.HIGH, FeeAmount.LOWEST]
feeTiers == <<MEDIUM, LOW, HIGH, LOWEST>>

(***************************************************************************)
(* Inputs of calculateTrade.  A token stands for its address; its decimals *)
(* are what the chain answers for it.                                      *)
(***************************************************************************)
WETH_ADDRESS == "WETH"
Tokens == {WETH_ADDRESS, "TKN"}
\* amount strings: empty, zero, negative, and two positive amounts.  The
\* positive ones have no fractional digits, so that parseUnits and
\* toSignificant(6) leave them as they are.
Amounts == {"", "0", "-1", "1", "2"}

\* !amount || parseFloat(amount) <= 0
amountIsRejected(amount) == amount \in {"", "0", "-1"}

(***************************************************************************)
(* Error messages, verbatim from the source.                               *)
(***************************************************************************)
MsgSelfPair == "Cannot trade WETH with itself. Please select a different token."
MsgNoV4Pool == "No V4 pool found for TKN/WETH. V4 is still in early deployment - try V3 pools instead."
MsgV4Decode == "V4 Quoter failed: Could not decode quote result"
MsgV4Range == "Price is out of range. Please try V3 fallback."
MsgNoV3Pool == "No V3 liquidity pool found for this token pair"
MsgBothFailed == "No liquidity pools found on V4 or V3"
MsgDefault == "Failed to calculate trade"
MsgV4Default == "Failed to calculate V4 trade"
MsgV3Default == "Failed to calculate V3 trade"
\* messages a rejected provider call carries ("" : an error without message)
ProviderMsgs == {"call revert exception", ""}

(***************************************************************************)
(* Records.  A null route / pool / trade is a record of the same shape.    *)
(***************************************************************************)
NullRoute == [version |-> Null, inputAmount |-> "", outputAmount |-> 0, fee |-> 0]
NullPool == [fee |-> 0, liquidity |-> 0]

\* useMultiVersionTrade: useState<MultiVersionTradeState>({...})
InitialState ==
    [primaryRoute |-> NullRoute, fallbackRoute |-> NullRoute, selectedRoute |-> NullRoute,
     isCalculating |-> FALSE, error |-> Null, version |-> Null]

\* useV4Trade: useState<V4TradeState>({...})
InitialV4State == [poolInfo |-> NullPool, route |-> NullRoute, isCalculating |-> FALSE, error |-> Null]

\* useV3Trade: useState<V3TradeState>({...}); trade and pool are set and
\* cleared together with route, the model keeps the pool's fee and liquidity
InitialV3State == [pool |-> NullPool, route |-> NullRoute, isCalculating |-> FALSE, error |-> Null]

\* What one calculateTrade call holds: its position, the provider it closed
\* over (TRUE: there is one), its arguments, its locals
\* (tier: index of the fee tier loop, pool: poolInfo, quoted: quotedAmount,
\* returned: the amount the V4 quoter call returned, 0 while it has not,
\* approximated: quotedAmount was computed from the spot price),
\* and the record of what it did:
\*   meta    the metadata lookup: none, pending, ok, failed
\*   v4, v3  the attempt of each version: none (not started), running,
\*           selfpair / nopool / noquote (it returned null: the token is WETH,
\*           discovery found no pool, a pool was found and quoting failed),
\*           route (it returned a route)
\*   calls   the kinds of network calls it has issued
\*   outcome the state it wrote when it ended
IdleTask ==
    [pc |-> "idle", provider |-> TRUE, token |-> "", amount |-> "",
     tier |-> 0, pool |-> NullPool, quoted |-> 0,
     meta |-> "none", v4 |-> "none", v3 |-> "none", calls |-> {},
     returned |-> 0, approximated |-> FALSE, outcome |-> InitialState]

VARIABLES
    state,      \* state of useMultiVersionTrade
    v4State,    \* tradeState of useV4Trade
    v3State,    \* tradeState of useV3Trade
    task,       \* task[r]: the r-th calculateTrade call
    latest,     \* the request started last and not cleared since (0: none)
    tokenInfo,  \* tokenInfo of useToken
    fetch,      \* the fetchTokenInfo call in flight
    calcWait,   \* seconds the metadata lookup of calculateTrade has been pending
    quote,      \* a quote and the route fields derived from it
    exec,       \* an executeTrade call
    retry,      \* a retryTransaction call
    disc,       \* a pool discovery: findV4Pool or findBestPool
    chain,      \* the inputs of a repeated calculateTrade and what the chain answered
    adv,        \* a findAllV3Routes call and the selectBestRoute after it
    key,        \* the V4 pool keys built for one trade
    form,       \* the trade form and its effects
    pos,        \* one position operation
    trades,     \* the trades started through useTradeExecution
    price,      \* the execution price of a V4 and of a V3 route for one quote
    multiHop    \* one executeV4MultiHopSwap call

calcVars == <<state, v4State, v3State, task, latest>>
timerVars == <<tokenInfo, fetch, calcWait>>
vars == <<state, v4State, v3State, task, latest, tokenInfo, fetch, calcWait, quote, exec, retry, disc, chain, adv, key, form, pos, trades, price, multiHop>>


(***************************************************************************)
(* The states the hooks write.                                             *)
(***************************************************************************)
\* setState(prev => ({ ...prev, isCalculating: true, error: null }))
CalculatingState(prev) == [prev EXCEPT !.isCalculating = TRUE, !.error = Null]

\* a plausible slip: the V4 result is never taken, V3 is always tried
V4ResultIgnored(route) == FALSE

\* if (v4Result && v4Result.route)
V4ResultUsable(route) == route # NullRoute

\* if (v3Result && v3Result.route)
V3ResultUsable(route) == route # NullRoute

\* addressUtils.ts 77-84: the state written when V4 produced a route
V4FoundState(route) ==
    [primaryRoute |-> route, fallbackRoute |-> NullRoute, selectedRoute |-> route,
     isCalculating |-> FALSE, error |-> Null, version |-> "V4"]

\* a plausible slip: the V3 route is stored beside what the state held,
\* the error of the failed V4 attempt included
V3FoundStateWithV4Error(route) ==
    [primaryRoute |-> NullRoute, fallbackRoute |-> route, selectedRoute |-> route,
     isCalculating |-> FALSE, error |-> MsgNoV4Pool, version |-> "V3"]

\* addressUtils.ts 94-101: the state written when V3 produced a route
V3FoundState(route) ==
    [primaryRoute |-> NullRoute, fallbackRoute |-> route, selectedRoute |-> route,
     isCalculating |-> FALSE, error |-> Null, version |-> "V3"]

\* error.message || 'Failed to calculate trade'
MessageOr(msg, default) == IF msg = "" THEN default ELSE msg

\* a plausible slip: the catch spreads the previous state, as the catch of
\* the version hooks does, and keeps the route of an earlier calculation
ErrorStateSpread(msg) ==
    [state EXCEPT !.isCalculating = FALSE, !.error = MessageOr(msg, MsgDefault)]

\* addressUtils.ts 110-118: the state written by the outer catch
ErrorState(msg) ==
    [primaryRoute |-> NullRoute, fallbackRoute |-> NullRoute, selectedRoute |-> NullRoute,
     isCalculating |-> FALSE, error |-> MessageOr(msg, MsgDefault), version |-> Null]

\* a plausible slip: the error of the V3 attempt is passed on
V3FailureMessagePassedOn(v3msg) == v3msg

\* addressUtils.ts 105-109: the error thrown when v3Trade.calculateTrade
\* returned no route (v3Trade.calculateTrade never throws: it returns null)
V3FailureMessage(v3msg) == MsgBothFailed

\* useV4Trade.ts 269-273 / useWeb3.ts 389-393: the catch of a version hook
\* keeps what the state held and sets the error
HookErrorState(prev, msg, default) ==
    [prev EXCEPT !.isCalculating = FALSE, !.error = MessageOr(msg, default)]

\* useV4Trade.ts 242-252: the route of a V4 quote.  outputAmount is the raw
\* amount out; executionPrice, priceImpact, minimumReceived and feeTier are
\* functions of these fields and of the direction (see the quoting section)
V4Route(t, pool, amountOut) ==
    [version |-> "V4", inputAmount |-> t.amount, outputAmount |-> amountOut, fee |-> pool.fee]

\* a plausible slip: the fee is read from the hook's tradeState, which still
\* holds the pool of the calculation before
V3RouteFromHookState(t, pool, amountOut) ==
    [version |-> "V3", inputAmount |-> t.amount, outputAmount |-> amountOut,
     fee |-> v3State.pool.fee]

\* useWeb3.ts 362-372: the route of a V3 quote
V3Route(t, pool, amountOut) ==
    [version |-> "V3", inputAmount |-> t.amount, outputAmount |-> amountOut, fee |-> pool.fee]

\* the trade state a caller sees: selectedRoute, version, error
Exposed(st) == [route |-> st.selectedRoute, version |-> st.version, error |-> st.error]

\* the call has returned: its locals are gone
Ended(t, st) ==
    [t EXCEPT !.pc = "done", !.amount = "",
              !.tier = 0, !.pool = NullPool, !.quoted = 0,
              !.returned = 0, !.approximated = FALSE,
              !.outcome = st]

\* a network call of the given kind is issued
Called(t, kind) == [t EXCEPT !.calls = @ \cup {kind}]

(***************************************************************************)
(* Initial state: the three hooks as constructed, no request made.         *)
(***************************************************************************)
CalcInit ==
    /\ state = InitialState
    /\ v4State = InitialV4State
    /\ v3State = InitialV3State
    /\ task = [r \in Req |-> IdleTask]
    /\ latest = 0

(***************************************************************************)
(* Continuations shared by the steps.  Each takes the task record t of     *)
(* request r as the step has changed it so far.                            *)
(***************************************************************************)
\* addressUtils.ts 105-119: V3 gave no route; the error reaches the outer catch
BothFailed(r, t, v3msg) ==
    LET st == ErrorState(V3FailureMessage(v3msg)) IN
    /\ state' = st
    /\ task' = [task EXCEPT ![r] = Ended(t, st)]

\* useWeb3.ts 295-320: v3Trade.calculateTrade up to its first network call
StartV3(r, t) ==
    LET started == CalculatingState(v3State)
        t1 == [t EXCEPT !.v3 = "running"] IN
    IF t.token = WETH_ADDRESS
    THEN /\ v3State' = HookErrorState(started, MsgSelfPair, MsgV3Default)
         /\ BothFailed(r, [t1 EXCEPT !.v3 = "selfpair"], MsgSelfPair)
    ELSE /\ v3State' = started
         /\ task' = [task EXCEPT ![r] =
                        [Called(t1, "v3:discovery") EXCEPT !.pc = "v3pool", !.tier = 1]]
         /\ UNCHANGED state

\* useV4Trade.ts 267-275 then addressUtils.ts 88-91: the V4 attempt threw msg,
\* v4Trade.calculateTrade returns null and the V3 attempt starts
V4Failed(r, t, v4prev, why, msg) ==
    /\ v4State' = HookErrorState(v4prev, msg, MsgV4Default)
    /\ StartV3(r, [t EXCEPT !.v4 = why, !.returned = 0, !.approximated = FALSE])

\* useV4Trade.ts 99-115: v4Trade.calculateTrade up to its first network call
StartV4(r, t) ==
    LET started == CalculatingState(v4State)
        t1 == [t EXCEPT !.v4 = "running"] IN
    IF t.token = WETH_ADDRESS
    THEN V4Failed(r, t1, started, "selfpair", MsgSelfPair)
    ELSE /\ v4State' = started
         /\ task' = [task EXCEPT ![r] =
                        [Called(t1, "v4:discovery") EXCEPT !.pc = "v4pool", !.tier = 1]]
         /\ UNCHANGED <<state, v3State>>

\* useV4Trade.ts 214-266 then addressUtils.ts 75-86: the V4 route is built,
\* returned and selected (or, were it unusable, the V3 attempt starts)
V4Succeeded(r, t, amountOut) ==
    LET route == V4Route(t, t.pool, amountOut)
        t1 == [t EXCEPT !.v4 = "route"] IN
    /\ v4State' = [poolInfo |-> t.pool, route |-> route, isCalculating |-> FALSE, error |-> Null]
    /\ IF V4ResultUsable(route)
       THEN /\ state' = V4FoundState(route)
            /\ task' = [task EXCEPT ![r] = Ended(t1, V4FoundState(route))]
            /\ UNCHANGED v3State
       ELSE StartV3(r, t1)


(***************************************************************************)
(* What the network may answer.                                            *)
(***************************************************************************)
\* getLiquidity / liquidity(): a liquidity (or the call fails: not answered)
LiquidityValues == {0, 999, 500000}
LiquidityAnswers ==
    {[answered |-> TRUE, liquidity |-> v] : v \in LiquidityValues}
        \cup {[answered |-> FALSE, liquidity |-> 0]}
\* the amount out a quote carries
QuoteValues == 1..MaxQuote

\* quoter.callStatic.quoteExactInputSingle of V4: it returns amountOut, or
\* reverts with QuoteSwap(amountOut), or with QuoteSwap data that cannot be
\* decoded, or fails in another way
V4QuoteAnswers ==
    {[kind |-> k, amountOut |-> v] : k \in {"return", "revert"}, v \in QuoteValues}
        \cup {[kind |-> k, amountOut |-> 0] : k \in {"undecodable", "other"}}

\* Promise.all of name(), symbol(), decimals(): resolved, or rejected with a message
MetadataAnswers ==
    {[ok |-> TRUE, msg |-> ""]} \cup {[ok |-> FALSE, msg |-> m] : m \in ProviderMsgs}

\* stateView.getSlot0 for the spot price: the approximate amount out, or a failure
V4SpotAnswers ==
    {[ok |-> TRUE, amountOut |-> v] : v \in QuoteValues \cup {0}}
        \cup {[ok |-> FALSE, amountOut |-> 0]}

\* stateView.getSlot0 for the price impact: it answers, or fails with a message
V4ImpactAnswers ==
    {[ok |-> TRUE, msg |-> ""]} \cup {[ok |-> FALSE, msg |-> m] : m \in ProviderMsgs}

\* quoter.callStatic.quoteExactInputSingle of V3: amountOut, or a failure
V3QuoteAnswers ==
    {[ok |-> TRUE, amountOut |-> v, msg |-> ""] : v \in QuoteValues}
        \cup {[ok |-> FALSE, amountOut |-> 0, msg |-> m] : m \in ProviderMsgs}

(***************************************************************************)
(* useMultiVersionTrade.calculateTrade, addressUtils.ts 54-123.            *)
(***************************************************************************)
\* 54-68: the call itself, up to the three metadata calls
CalculateTradeWith(r, provider, token, amount) ==
    /\ task[r].pc = "idle"
    /\ \A q \in Req : q < r => task[q].pc # "idle"
    /\   LET t == [task[r] EXCEPT !.provider = provider, !.token = token, !.amount = amount] IN
         IF ~provider \/ amountIsRejected(amount)
         THEN \* 56-58: return null, no state is written; the task keeps what
              \* the condition read: the amount only where there is a provider
              /\ task' = [task EXCEPT ![r] =
                            [task[r] EXCEPT !.pc = "rejected", !.provider = provider,
                                            !.amount = IF provider THEN amount ELSE ""]]
              /\ UNCHANGED <<state, v4State, v3State, latest>>
         ELSE /\ state' = CalculatingState(state)
              /\ task' = [task EXCEPT ![r] =
                            [Called(t, "metadata") EXCEPT !.pc = "meta", !.meta = "pending"]]
              /\ latest' = r
              /\ UNCHANGED <<v4State, v3State>>

CalculateTrade(r) ==
    \E provider \in BOOLEAN, token \in Tokens, amount \in Amounts :
        CalculateTradeWith(r, provider, token, amount)

\* 64-73: Promise.all of name, symbol, decimals resolves; the V4 attempt starts
MetadataResolved(r) ==
    /\ task[r].pc = "meta"
    /\ StartV4(r, [task[r] EXCEPT !.meta = "ok"])
    /\ UNCHANGED latest

\* a plausible slip: a failed lookup is caught where it is made and the
\* attempts go on without the metadata
MetadataRejectedFallsBack(r) ==
    /\ task[r].pc = "meta"
    /\ StartV4(r, [task[r] EXCEPT !.meta = "failed"])
    /\ UNCHANGED latest

\* 64-68, 110-119: Promise.all rejects with msg; the outer catch writes the error
MetadataRejectedWith(r, msg) ==
    /\ task[r].pc = "meta"
    /\ state' = ErrorState(msg)
    /\ task' = [task EXCEPT ![r] = Ended([task[r] EXCEPT !.meta = "failed"], ErrorState(msg))]
    /\ UNCHANGED <<v4State, v3State, latest>>

MetadataRejected(r) == \E msg \in ProviderMsgs : MetadataRejectedWith(r, msg)

(***************************************************************************)
(* useV4Trade.findV4Pool, useV4Trade.ts 37-91, and calculateTrade 93-278.  *)
(***************************************************************************)
\* if (liquidity > 0n)
V4PoolQualifies(liquidity) == liquidity > 0

\* 59-82: one getLiquidity answer, a, of the fee tier loop
V4LiquidityAnswered(r, a) ==
    LET t == task[r] IN
    /\ t.pc = "v4pool"
    /\   IF a.answered /\ V4PoolQualifies(a.liquidity)
         THEN \* 69-76 the pool is returned; 141-160 up to the quoter call
              LET t1 == [t EXCEPT !.pool = [fee |-> feeTiers[t.tier], liquidity |-> a.liquidity]] IN
              /\ task' = [task EXCEPT ![r] = [Called(t1, "v4:quote") EXCEPT !.pc = "v4quote"]]
              /\ UNCHANGED <<state, v4State, v3State>>
         ELSE IF t.tier < Len(feeTiers)
         THEN \* next fee tier
              /\ task' = [task EXCEPT ![r] =
                            [Called(t, "v4:discovery") EXCEPT !.tier = t.tier + 1]]
              /\ UNCHANGED <<state, v4State, v3State>>
         ELSE \* 84, 117-119: no pool
              V4Failed(r, t, v4State, "nopool", MsgNoV4Pool)
    /\ UNCHANGED latest

V4LiquidityResolved(r) == \E a \in LiquidityAnswers : V4LiquidityAnswered(r, a)

\* 154-160: quotedAmount starts as 0 and the value the call returns is not
\* assigned to it
V4QuotedOnReturn(returned) == 0

\* 159-212: the answer, a, of quoter.callStatic.quoteExactInputSingle
V4QuoteAnswered(r, a) ==
    LET t == task[r] IN
    /\ t.pc = "v4quote"
    /\ CASE a.kind = "return" ->
              \* the call returns: on to the price impact
              /\ task' = [task EXCEPT ![r] =
                            [Called(t, "v4:slot0") EXCEPT !.pc = "v4impact",
                                                          !.returned = a.amountOut,
                                                          !.quoted = V4QuotedOnReturn(a.amountOut)]]
              /\ UNCHANGED <<state, v4State, v3State>>
         [] a.kind = "revert" ->
              \* 164-176: the QuoteSwap revert carries the amount
              /\ task' = [task EXCEPT ![r] =
                            [Called(t, "v4:slot0") EXCEPT !.pc = "v4impact", !.quoted = a.amountOut]]
              /\ UNCHANGED <<state, v4State, v3State>>
         [] a.kind = "undecodable" ->
              \* 180-183: the revert data cannot be decoded
              V4Failed(r, t, v4State, "noquote", MsgV4Decode)
         [] OTHER ->
              \* 184-188: any other failure: the spot price is asked for
              /\ task' = [task EXCEPT ![r] = [Called(t, "v4:slot0") EXCEPT !.pc = "v4spot"]]
              /\ UNCHANGED <<state, v4State, v3State>>
    /\ UNCHANGED latest

V4QuoteResolved(r) == \E a \in V4QuoteAnswers : V4QuoteAnswered(r, a)

\* 188-207: the answer, a, of getSlot0 for the spot price approximation
V4SpotAnswered(r, a) ==
    LET t == task[r] IN
    /\ t.pc = "v4spot"
    /\ IF a.ok
       THEN /\ task' = [task EXCEPT ![r] =
                          [Called(t, "v4:slot0") EXCEPT !.pc = "v4impact", !.quoted = a.amountOut,
                                                        !.approximated = TRUE]]
            /\ UNCHANGED <<state, v4State, v3State>>
       ELSE V4Failed(r, t, v4State, "noquote", MsgV4Range)
    /\ UNCHANGED latest

V4SpotResolved(r) == \E a \in V4SpotAnswers : V4SpotAnswered(r, a)

\* 230-266: the answer, a, of getSlot0 for the price impact; the route is built
V4ImpactAnswered(r, a) ==
    LET t == task[r] IN
    /\ t.pc = "v4impact"
    /\ IF a.ok
       THEN V4Succeeded(r, t, t.quoted)
       ELSE V4Failed(r, t, v4State, "noquote", a.msg)
    /\ UNCHANGED latest

V4ImpactResolved(r) == \E a \in V4ImpactAnswers : V4ImpactAnswered(r, a)

(***************************************************************************)
(* useV3Trade.findBestPool, useWeb3.ts 225-287, and calculateTrade 289-398.*)
(***************************************************************************)
\* if (liquidity.toString() === '0' || BigInt(liquidity) < BigInt(MIN_LIQUIDITY_THRESHOLD)) continue
V3PoolQualifies(liquidity) == liquidity # 0 /\ liquidity >= MIN_LIQUIDITY_THRESHOLD

\* 374-386 then addressUtils.ts 93-103
V3Succeeded(r, t, amountOut) ==
    LET route == V3Route(t, t.pool, amountOut)
        t1 == [t EXCEPT !.v3 = "route"] IN
    /\ v3State' = [pool |-> t.pool, route |-> route, isCalculating |-> FALSE, error |-> Null]
    /\ IF V3ResultUsable(route)
       THEN /\ state' = V3FoundState(route)
            /\ task' = [task EXCEPT ![r] = Ended(t1, V3FoundState(route))]
       ELSE BothFailed(r, t1, "")

\* 387-395 then addressUtils.ts 105-119
V3Failed(r, t, why, msg) ==
    /\ v3State' = HookErrorState(v3State, msg, MsgV3Default)
    /\ BothFailed(r, [t EXCEPT !.v3 = why], msg)

\* 233-282: the answers, a, of one fee tier's token0, token1, liquidity, slot0
V3PoolAnswered(r, a) ==
    LET t == task[r] IN
    /\ t.pc = "v3pool"
    /\   IF a.answered /\ V3PoolQualifies(a.liquidity)
         THEN \* 270-278 the pool is returned; 322-341 up to the quoter call
              LET t1 == [t EXCEPT !.pool = [fee |-> feeTiers[t.tier], liquidity |-> a.liquidity]] IN
              /\ task' = [task EXCEPT ![r] = [Called(t1, "v3:quote") EXCEPT !.pc = "v3quote"]]
              /\ UNCHANGED <<state, v3State>>
         ELSE IF t.tier < Len(feeTiers)
         THEN /\ task' = [task EXCEPT ![r] =
                            [Called(t, "v3:discovery") EXCEPT !.tier = t.tier + 1]]
              /\ UNCHANGED <<state, v3State>>
         ELSE \* 284, 318-320: no pool
              V3Failed(r, t, "nopool", MsgNoV3Pool)
    /\ UNCHANGED <<v4State, latest>>

V3PoolResolved(r) == \E a \in LiquidityAnswers : V3PoolAnswered(r, a)

\* 335-386: the answer, a, of the V3 quoter
V3QuoteAnswered(r, a) ==
    LET t == task[r] IN
    /\ t.pc = "v3quote"
    /\ IF a.ok
       THEN V3Succeeded(r, t, a.amountOut)
       ELSE V3Failed(r, t, "noquote", a.msg)
    /\ UNCHANGED <<v4State, latest>>

V3QuoteResolved(r) == \E a \in V3QuoteAnswers : V3QuoteAnswered(r, a)

(***************************************************************************)
(* useMultiVersionTrade.clearTrade, addressUtils.ts 149-160.               *)
(***************************************************************************)
ClearTrade ==
    /\ v4State' = InitialV4State
    /\ v3State' = InitialV3State
    /\ state' = InitialState
    /\ latest' = 0
    /\ UNCHANGED task

(***************************************************************************)
(* useToken.fetchTokenInfo, src/unnamed/part_003 328-449, and the passing  *)
(* of time.  Time is counted in seconds for the lookups that are pending.  *)
(***************************************************************************)
MsgInvalidAddress == "Invalid token address format. Please check the address and try again."
MsgTimedOut == "Token info request timed out"
MsgCallException == "Contract does not exist or is not a valid ERC20 token"
MsgNetworkError == "Network error. Please check your connection and try again"
MsgInvalidDecimals == "Invalid token decimals"
MsgUnresponsive == "Request timed out. The token contract might be unresponsive"
MsgFetchDefault == "Failed to fetch token information"

\* error.message?.includes('timeout')
includesTimeout(msg) == msg \in {"timeout"}

\* useState<TokenInfo>({...}): token is the address of the Token object
InitialTokenInfo == [token |-> Null, isLoading |-> FALSE, error |-> Null]

IdleFetch == [pc |-> "idle", address |-> "", waited |-> 0]

\* ethers.utils.isAddress(tokenAddress)
isAddress(address) == address \in Tokens

TimerInit ==
    /\ tokenInfo = InitialTokenInfo
    /\ fetch = IdleFetch
    /\ calcWait = 0

\* 402-428: the catch of fetchTokenInfo; code is error.code, msg error.message
FetchErrorMessage(code, msg) ==
    IF code = "CALL_EXCEPTION" THEN MsgCallException
    ELSE IF code = "NETWORK_ERROR" THEN MsgNetworkError
    ELSE IF includesTimeout(msg) THEN MsgUnresponsive
    ELSE IF msg # "" THEN msg
    ELSE MsgFetchDefault

FetchFailedState(code, msg) ==
    [token |-> Null, isLoading |-> FALSE, error |-> FetchErrorMessage(code, msg)]

\* 340-373: the call, up to the race of the three metadata calls and the timer
FetchTokenInfo ==
    /\ fetch.pc = "idle"
    /\ \E address \in Tokens \cup {"0x12"} :
         IF ~isAddress(address)
         THEN /\ tokenInfo' = [tokenInfo EXCEPT !.error = MsgInvalidAddress, !.isLoading = FALSE]
              /\ UNCHANGED fetch
         ELSE /\ tokenInfo' = [tokenInfo EXCEPT !.isLoading = TRUE, !.error = Null]
              /\ fetch' = [pc |-> "pending", address |-> address, waited |-> 0]
    /\ UNCHANGED calcWait

\* 364-401: the three calls answer before the timer fires
FetchResolved ==
    /\ fetch.pc = "pending"
    /\ \E valid \in BOOLEAN :
         tokenInfo' = IF valid
                      THEN [token |-> fetch.address, isLoading |-> FALSE, error |-> Null]
                      ELSE FetchFailedState("", MsgInvalidDecimals)
    /\ fetch' = IdleFetch
    /\ UNCHANGED calcWait

\* 364-373, 402-428: one of the calls fails before the timer fires
FetchRejected ==
    /\ fetch.pc = "pending"
    /\ \E code \in {"CALL_EXCEPTION", "NETWORK_ERROR", ""}, msg \in ProviderMsgs \cup {"timeout"} :
         tokenInfo' = FetchFailedState(code, msg)
    /\ fetch' = IdleFetch
    /\ UNCHANGED calcWait

\* 359-361, 370-372: the timer fires first, the race rejects
FetchTimedOut ==
    /\ fetch.pc = "pending"
    /\ fetch.waited = TimeoutSeconds
    /\ tokenInfo' = FetchFailedState("", MsgTimedOut)
    /\ fetch' = IdleFetch
    /\ UNCHANGED calcWait

\* addressUtils.ts 64-68: await Promise.all([...]) of calculateTrade races
\* against nothing: no timer bounds its wait
CalcLookupHasTimer == FALSE

\* one second passes.  A timer that is due fires before more time passes.
Tick ==
    /\ fetch.pc = "pending" \/ \E r \in Req : task[r].pc = "meta"
    /\ fetch.pc = "pending" => fetch.waited < TimeoutSeconds
    /\ (CalcLookupHasTimer /\ \E r \in Req : task[r].pc = "meta") => calcWait < TimeoutSeconds
    /\ fetch.pc = "pending" \/ calcWait < MaxWait
    /\ fetch' = IF fetch.pc = "pending" THEN [fetch EXCEPT !.waited = @ + 1] ELSE fetch
    /\ calcWait' = IF (\E r \in Req : task[r].pc = "meta") /\ calcWait < MaxWait
                   THEN calcWait + 1 ELSE calcWait
    /\ UNCHANGED tokenInfo

(***************************************************************************)
(* Quoting: the amounts of a route.  An amount is a count of raw units of  *)
(* a token with the given decimals; a displayed amount is a fraction       *)
(* [n, d] = n / d.                                                         *)
(***************************************************************************)
\* largest raw amount out of the small quotes
MaxRaw == 120

RECURSIVE Pow10(_)
Pow10(k) == IF k = 0 THEN 1 ELSE 10 * Pow10(k - 1)

\* decimals of the output token: 6 (as USDC) and 8 (as WBTC); with 18 (WETH)
\* the same happens 10^10 raw units higher
QuoteDecimals == {6, 8}

\* raw amounts out: every small amount, and amounts of up to eight digits
RawAmounts == (0..MaxRaw) \cup {1000, 123456, 1000000, 1234567, 9999999, 10049999, 12345678}

RECURSIVE GCD(_, _)
GCD(a, b) == IF b = 0 THEN a ELSE GCD(b, a % b)

\* floor(a * b / c), computed without forming a * b
MulDiv(a, b, c) == (a \div c) * b + ((a % c) * b) \div c

\* (a * b) mod c, computed without forming a * b
MulMod(a, b, c) == ((a % c) * b) % c

\* a <= b for fractions whose denominators are powers of ten
FracLeq(a, b) ==
    LET g == IF a.d <= b.d THEN a.d ELSE b.d
    IN  a.n * (b.d \div g) <= b.n * (a.d \div g)

\* ethers.utils.formatUnits(raw, decimals): the exact decimal value
formatUnits(raw, decimals) == [n |-> raw, d |-> Pow10(decimals)]

\* Number.prototype.toFixed(6) of the float nearest to num / (den * 10^decimals),
\* in millionths: the nearest millionth; at an exact tie the float may lie on
\* either side of it, so both neighbours are results.  decimals >= 6.
\* The value is raw * num / (den * 10^decimals).
toFixed6(raw, num, den, decimals) ==
    LET g == GCD(den * Pow10(decimals - 6), num)
        div == (den * Pow10(decimals - 6)) \div g
        mul == num \div g
        lo == MulDiv(raw, mul, div)
        twice == 2 * MulMod(raw, mul, div)
    IN  IF twice < div THEN {lo} ELSE IF twice > div THEN {lo + 1} ELSE {lo, lo + 1}

\* useV4Trade.ts 216-220:
\*   slippageAmount = parseFloat(outputAmount) * (DEFAULT_SLIPPAGE / 10000)
\*   minimumReceived = (parseFloat(outputAmount) - slippageAmount).toFixed(6)
V4MinimumReceived(raw, decimals) ==
    {[n |-> m, d |-> Pow10(6)] : m \in toFixed6(raw, 10000 - DEFAULT_SLIPPAGE, 10000, decimals)}

\* number of decimal digits of n > 0
RECURSIVE Digits(_)
Digits(n) == IF n < 10 THEN 1 ELSE 1 + Digits(n \div 10)

\* CurrencyAmount.toSignificant(6) of raw / 10^decimals: rounding is
\* Rounding.ROUND_DOWN, the digits after the sixth significant one are dropped
toSignificant6Down(raw, decimals) ==
    LET cut == IF raw = 0 \/ Digits(raw) <= 6 THEN 1 ELSE Pow10(Digits(raw) - 6)
    IN  [n |-> (raw \div cut) * cut, d |-> Pow10(decimals)]

\* Trade.minimumAmountOut(slippageTolerance) of @uniswap/v3-sdk for an exact
\* input trade: outputAmount / (1 + slippageTolerance), rounded down
minimumAmountOut(raw, bips) == MulDiv(raw, 10000, 10000 + bips)

\* useWeb3.ts 355-368: const slippageTolerance = new Percent(DEFAULT_SLIPPAGE, 10000)
V3MinimumReceived(raw, decimals) ==
    {toSignificant6Down(minimumAmountOut(raw, DEFAULT_SLIPPAGE), decimals)}

\* useV4Trade.ts 216: outputAmount of a V4 route
V4OutputAmount(raw, decimals) == formatUnits(raw, decimals)

\* useWeb3.ts 365: outputAmount: trade.outputAmount.toSignificant(6)
V3OutputAmount(raw, decimals) == toSignificant6Down(raw, decimals)

NoAmount == [n |-> 0, d |-> 1]

IdleQuote ==
    [pc |-> "idle", version |-> Null, decimals |-> 0, amountOut |-> 0,
     outputAmount |-> NoAmount, minimumReceived |-> NoAmount]

\* the quoter has answered amountOut for a token with the given decimals
QuoteInit ==
    \E version \in {"V3", "V4"}, decimals \in QuoteDecimals, raw \in RawAmounts :
        quote = [IdleQuote EXCEPT !.pc = "quoted", !.version = version,
                                  !.decimals = decimals, !.amountOut = raw]

\* useV4Trade.ts 214-252: the amounts of the V4 route
BuildV4Route ==
    /\ quote.pc = "quoted" /\ quote.version = "V4"
    /\ \E min \in V4MinimumReceived(quote.amountOut, quote.decimals) :
         quote' = [quote EXCEPT !.pc = "built",
                                !.outputAmount = V4OutputAmount(quote.amountOut, quote.decimals),
                                !.minimumReceived = min]

\* useWeb3.ts 343-372: the amounts of the V3 route
BuildV3Route ==
    /\ quote.pc = "quoted" /\ quote.version = "V3"
    /\ \E min \in V3MinimumReceived(quote.amountOut, quote.decimals) :
         quote' = [quote EXCEPT !.pc = "built",
                                !.outputAmount = V3OutputAmount(quote.amountOut, quote.decimals),
                                !.minimumReceived = min]

(***************************************************************************)
(* Execution: executeTrade of useMultiVersionTrade (addressUtils.ts        *)
(* 125-147), of useV4Trade (useV4Trade.ts 280-327) with executeV4Swap      *)
(* (v4UniversalRouter.ts 48-167), and of useV3Trade (useWeb3.ts 400-574).  *)
(* Amounts are raw units of the output token; the user's slippage is in    *)
(* thousandths of a percent (500 is the default 0.5).                      *)
(***************************************************************************)
\* quoted amounts out of the selected route
ExecOutputs == {1, 199, 10000, 20100}

\* TradeInterface.tsx 69: slippage 0.5 by default; TradeSettings.tsx 18-29:
\* a preset, or a custom value v with 0 < v <= 50
SlippageSettings == {100, 500, 1000, 1255, 50000}

\* Math.floor(slippage * 100)
slippageBips(slippage) == slippage \div 10

\* TradeInterface.tsx 70: deadline 20 (minutes) by default; TradeSettings.tsx
\* 31-37: a whole number of minutes from 1 to 60
DeadlineSettings == {1, 20, 60}

\* Math.floor(Date.now() / 1000) when executeTrade is called
StartTime == 1000

\* seconds a call to the network or to the wallet may take to answer
Delays == {0, 30}

\* v4UniversalRouter.ts 62: const deadline = Math.floor(Date.now() / 1000) + 1200
V4_DEADLINE_SECONDS == 1200

\* One executeTrade call.  now is the clock in seconds; deadline the user's
\* setting in minutes; deadlineTime the deadline inside the swap calldata (V3);
\* deadlineArg the deadline argument of the router call; submittedAt the time
\* of the last router call; swapCalls the number of router calls made;
\* allowance and approval what the allowance check and the approval came to;
\* retried whether executeV4Swap is in its second attempt; error what is thrown.
IdleExec ==
    [pc |-> "idle", version |-> Null, isBuying |-> FALSE, funds |-> "enough", amountOut |-> 0,
     slippage |-> 0, hookMinAmountOut |-> 0, minAmountOut |-> 0,
     deadline |-> 0, now |-> StartTime, deadlineTime |-> 0, deadlineArg |-> 0,
     submittedAt |-> 0, swapCalls |-> 0, allowance |-> "none", approval |-> "none",
     retried |-> FALSE, error |-> Null, minimumReceived |-> NoAmount]

\* decimals of the output token of the executed route
ExecDecimals == 6

\* route.minimumReceived of the selected route: what calculateTrade computed
\* for the quoted amount out (useV4Trade.ts 218-220, useWeb3.ts 355-367)
RouteMinimumReceived(version, amountOut) ==
    IF version = "V4" THEN V4MinimumReceived(amountOut, ExecDecimals)
    ELSE V3MinimumReceived(amountOut, ExecDecimals)

\* what the account holds of the input currency: enough for the input amount
\* and the gas buffer, enough for the input amount only, or less than that
Funds == {"enough", "noGas", "short"}

\* useWeb3.ts 414-417, 445-448: balance.lt(value), the value is the input
\* amount with nothing added for gas
BalanceIsShort(funds) == funds = "short"

\* useWeb3.ts 413-433, 438-464: what the check finds, or the call fails
BalanceAnswers(funds) ==
    {IF BalanceIsShort(funds) THEN "short" ELSE "enough", "failed"}

\* helpers.ts 38-40: calculateDeadline(minutes) at time now
calculateDeadline(minutes, now) == now + minutes * 60

\* useV4Trade.ts 319: deadline: Math.floor(Date.now() / 1000) + (deadline * 60)
V4HookDeadline(minutes, now) == now + minutes * 60

\* v4UniversalRouter.ts 52-62: params.deadline is not read
V4SwapDeadline(hookDeadline, now) == now + V4_DEADLINE_SECONDS

\* useWeb3.ts 489, 540: routerContract.multicall(deadline, [calldata]): the
\* argument is the setting in minutes, deadlineTime is inside the calldata only
V3MulticallDeadline(minutes, deadlineTime) == minutes

\* error.code of a failed router call
SwapErrorCodes == {"ACTION_REJECTED", "UNPREDICTABLE_GAS_LIMIT", "NETWORK_ERROR"}

\* useWeb3.ts 419-426, 450-457: 'Insufficient ETH balance. ...' / 'Insufficient ... balance. ...'
MsgInsufficient == "Insufficient balance"
\* useWeb3.ts 507-515, 558-566
MsgSimulationFailed == "Transaction simulation failed. This usually means: ..."
\* v4UniversalRouter.ts 161: `V4 swap failed: ${gasError.message}`
MsgV4SwapFailed == "V4 swap failed: ..."

\* the router call is made: universalRouter.execute / routerContract.multicall
SwapCalled(e) ==
    [e EXCEPT !.pc = "submit", !.submittedAt = e.now, !.swapCalls = @ + 1]

\* useV4Trade.ts 303-305: amountOutBN.mul(10000 - slippageBips).div(10000)
V4HookMinAmountOut(amountOut, slippage) ==
    (amountOut * (10000 - slippageBips(slippage))) \div 10000

\* v4UniversalRouter.ts 52-59, 69-70: params.minAmountOut is not read;
\*   slippageTolerance = DEFAULT_SLIPPAGE / 10000
\*   minAmountOut = amountOutWei - amountOutWei * floor(slippageTolerance * 10000) / 10000n
V4SwapMinAmountOut(amountOut, hookMinAmountOut) ==
    amountOut - (amountOut * DEFAULT_SLIPPAGE) \div 10000

\* useWeb3.ts 467-474: swapCallParameters([trade], {slippageTolerance, ...})
\* encodes trade.minimumAmountOut(slippageTolerance) as amountOutMinimum
V3SwapMinAmountOut(amountOut, slippage) ==
    minimumAmountOut(amountOut, slippageBips(slippage))

\* addressUtils.ts 125-147 into useV4Trade.ts 280-322 and v4UniversalRouter.ts
\* 48-116, or into useWeb3.ts 400-445: up to the first call to the network
ExecuteTrade ==
    /\ exec.pc = "idle"
    /\ \E version \in {"V4", "V3"}, isBuying \in BOOLEAN, funds \in Funds,
          amountOut \in ExecOutputs, slippage \in SlippageSettings,
          deadline \in DeadlineSettings :
       \E minimumReceived \in RouteMinimumReceived(version, amountOut) :
         LET hookMin == V4HookMinAmountOut(amountOut, slippage)
             started == [IdleExec EXCEPT !.version = version, !.isBuying = isBuying,
                                         !.funds = funds,
                                         !.minimumReceived = minimumReceived,
                                         !.amountOut = amountOut, !.slippage = slippage,
                                         !.deadline = deadline]
             v4 == [started EXCEPT
                       !.hookMinAmountOut = hookMin,
                       !.minAmountOut = V4SwapMinAmountOut(amountOut, hookMin),
                       !.deadlineArg = V4SwapDeadline(V4HookDeadline(deadline, started.now),
                                                      started.now)]
         IN  exec' = IF version = "V4"
                     THEN IF isBuying THEN SwapCalled(v4) ELSE [v4 EXCEPT !.pc = "allowance"]
                     ELSE [started EXCEPT !.pc = "balance"]

\* useWeb3.ts 411-474: the balance check of a V3 trade answers (getBalance
\* or balanceOf returns what the account holds, or fails); a failed check is
\* only logged
BalanceAnswered ==
    /\ exec.pc = "balance"
    /\ \E answer \in BalanceAnswers(exec.funds), dt \in Delays :
         LET e == [exec EXCEPT !.now = @ + dt]
             deadlineTime == calculateDeadline(e.deadline, e.now)
             ready == [e EXCEPT
                          !.minAmountOut = V3SwapMinAmountOut(e.amountOut, e.slippage),
                          !.deadlineTime = deadlineTime,
                          !.deadlineArg = V3MulticallDeadline(e.deadline, deadlineTime)]
         IN  exec' = IF answer = "short"
                     THEN [e EXCEPT !.pc = "failed", !.error = MsgInsufficient]
                     ELSE IF e.isBuying THEN SwapCalled(ready)
                     ELSE [ready EXCEPT !.pc = "allowance"]

\* useWeb3.ts 527-535, v4UniversalRouter.ts 115-120: the allowance answers
AllowanceAnswered ==
    /\ exec.pc = "allowance"
    /\ \E answer \in {"enough", "short", "failed"}, dt \in Delays :
         LET e == [exec EXCEPT !.now = @ + dt, !.allowance = answer]
         IN  exec' = CASE answer = "enough" -> SwapCalled(e)
                       [] answer = "short" -> [e EXCEPT !.pc = "approve", !.approval = "asked"]
                       [] OTHER -> [e EXCEPT !.pc = "failed", !.error = "CALL_EXCEPTION"]

\* a plausible slip: approveTx.wait() is left out, the router call is made as
\* soon as the approval transaction is sent
ApproveNotAwaited ==
    /\ exec.pc = "approve"
    /\ \E sent \in BOOLEAN, dt \in Delays :
         LET e == [exec EXCEPT !.now = @ + dt]
         IN  exec' = IF sent
                     THEN SwapCalled([e EXCEPT !.approval = "sent"])
                     ELSE [e EXCEPT !.pc = "failed", !.approval = "rejected",
                                    !.error = "ACTION_REJECTED"]

\* useWeb3.ts 535, v4UniversalRouter.ts 120: the wallet answers approve():
\* the approval transaction is sent, or the user rejects it
ApproveAnswered ==
    /\ exec.pc = "approve"
    /\ \E sent \in BOOLEAN, dt \in Delays :
         LET e == [exec EXCEPT !.now = @ + dt]
         IN  exec' = IF sent
                     THEN [e EXCEPT !.pc = "approveWait", !.approval = "sent"]
                     ELSE [e EXCEPT !.pc = "failed", !.approval = "rejected",
                                    !.error = "ACTION_REJECTED"]

\* useWeb3.ts 536-540, v4UniversalRouter.ts 121-135: approveTx.wait() settles:
\* the approval is confirmed and the router call is made, or it has failed
ApproveConfirmed ==
    /\ exec.pc = "approveWait"
    /\ \E confirmed \in BOOLEAN, dt \in Delays :
         LET e == [exec EXCEPT !.now = @ + dt]
         IN  exec' = IF confirmed
                     THEN SwapCalled([e EXCEPT !.approval = "confirmed"])
                     ELSE [e EXCEPT !.pc = "failed", !.approval = "failed",
                                    !.error = "CALL_EXCEPTION"]

\* useWeb3.ts 488-519, 539-570: the catch around routerContract.multicall
V3SwapError(code) ==
    IF code = "UNPREDICTABLE_GAS_LIMIT" THEN MsgSimulationFailed ELSE code

\* useWeb3.ts 489-519, 540-570, v4UniversalRouter.ts 127-166: the router call
\* answers: the transaction is sent, or the call fails with an error code.
\* executeV4Swap answers UNPREDICTABLE_GAS_LIMIT by asking for a gas estimate.
SwapAnswered ==
    /\ exec.pc = "submit"
    /\ \E dt \in Delays :
         LET e == [exec EXCEPT !.now = @ + dt]
         IN  \/ exec' = [e EXCEPT !.pc = "sent"]
             \/ \E code \in SwapErrorCodes :
                   exec' = IF e.version = "V3"
                           THEN [e EXCEPT !.pc = "failed", !.error = V3SwapError(code)]
                           ELSE IF e.retried
                           THEN [e EXCEPT !.pc = "failed", !.error = MsgV4SwapFailed]
                           ELSE IF code = "UNPREDICTABLE_GAS_LIMIT"
                           THEN [e EXCEPT !.pc = "estimate"]
                           ELSE [e EXCEPT !.pc = "failed", !.error = code]

\* v4UniversalRouter.ts 143-162: universalRouter.estimateGas.execute answers:
\* execute is called again with the gas limit, or the estimate has failed
GasEstimated ==
    /\ exec.pc = "estimate"
    /\ \E estimated \in BOOLEAN, dt \in Delays :
         LET e == [exec EXCEPT !.now = @ + dt]
         IN  exec' = IF estimated
                     THEN SwapCalled([e EXCEPT !.retried = TRUE])
                     ELSE [e EXCEPT !.pc = "failed", !.error = MsgV4SwapFailed]

\* the promise of executeTrade has settled; the next trade may start
ExecSettled ==
    /\ exec.pc \in {"sent", "failed"}
    /\ exec' = IdleExec

(***************************************************************************)
(* Pool discovery on its own: findV4Pool (useV4Trade.ts 37-91) and         *)
(* findBestPool (useWeb3.ts 225-287) as functions of what the chain        *)
(* answers, tier by tier.  answers keeps every answer received.            *)
(***************************************************************************)
IdleDiscovery ==
    [pc |-> "idle", version |-> Null, provider |-> FALSE, tier |-> 0,
     answers |-> <<>>, pool |-> NullPool]

\* the answer of a tier makes its pool the result: the query did not fail
\* (useV4Trade.ts 79-82, useWeb3.ts 280-282: a failed query is caught and the
\* loop continues) and the liquidity passes the version's check
TierQualifies(version, a) ==
    /\ a.answered
    /\ IF version = "V4" THEN V4PoolQualifies(a.liquidity) ELSE V3PoolQualifies(a.liquidity)

\* useV4Trade.ts 38-66, useWeb3.ts 226-249: the call, up to the first query
FindPool ==
    /\ disc.pc = "idle"
    /\ \E version \in {"V4", "V3"}, provider \in BOOLEAN :
         LET d == [IdleDiscovery EXCEPT !.version = version, !.provider = provider]
         IN  disc' = IF provider
                     THEN [d EXCEPT !.pc = "asking", !.tier = 1]
                     ELSE [d EXCEPT !.pc = "null"]

\* useV4Trade.ts 59-84, useWeb3.ts 233-284: one tier answers; the pool is
\* returned, the next tier is asked, or null is returned after the last one
TierAnswered ==
    /\ disc.pc = "asking"
    /\ \E a \in LiquidityAnswers :
         LET d == [disc EXCEPT !.answers = Append(@, a)]
         IN  disc' = IF TierQualifies(disc.version, a)
                     THEN [d EXCEPT !.pc = "found",
                                    !.pool = [fee |-> feeTiers[disc.tier], liquidity |-> a.liquidity]]
                     ELSE IF disc.tier < Len(feeTiers)
                     THEN [d EXCEPT !.tier = @ + 1]
                     ELSE [d EXCEPT !.pc = "null"]

\* the promise of the discovery has settled
DiscoverySettled ==
    /\ disc.pc \in {"found", "null"}
    /\ disc' = IdleDiscovery

(***************************************************************************)
(* retryTransaction, src/unnamed/part_002 430-453, as mintV4Position and   *)
(* the other position transactions use it (v4PositionManager.ts 323-333):  *)
(* fn submits the transaction, universalRouter.execute(...).               *)
(***************************************************************************)
\* maxRetries: number = 3
DEFAULT_MAX_RETRIES == 3
\* baseDelay: number = 1000 (milliseconds)
DEFAULT_BASE_DELAY == 1000
\* largest maxRetries a caller passes
MaxRetriesArg == 4

\* error.code of a failed submission
ErrorCodes ==
    {"ACTION_REJECTED", "INVALID_ARGUMENT", "NETWORK_ERROR", "CALL_EXCEPTION",
     "INSUFFICIENT_FUNDS"}

MsgMaxRetries == "Max retries exceeded"

\* a plausible slip: the check of the error code is left out
NeverRethrown(code) == FALSE

\* if (error.code === 'ACTION_REJECTED' || error.code === 'INVALID_ARGUMENT') throw error
RethrownAtOnce(code) == code \in {"ACTION_REJECTED", "INVALID_ARGUMENT"}

\* const delay = baseDelay * Math.pow(2, i)
BackoffDelay(baseDelay, i) == baseDelay * 2 ^ i

\* One retryTransaction call.  i is the loop counter; calls the number of
\* invocations of fn; errors the codes of the failed invocations, in order;
\* waits the delays waited, in order; result the number of the invocation
\* whose value was returned (0: none); error what was thrown.
IdleRetry ==
    [pc |-> "idle", maxRetries |-> 0, baseDelay |-> 0, i |-> 0, calls |-> 0,
     errors |-> <<>>, waits |-> <<>>, result |-> 0, error |-> Null]

\* 430-437: the call; the loop is entered and fn is invoked, or the loop is
\* skipped and 'Max retries exceeded' is thrown.  A caller that passes no
\* maxRetries and no baseDelay gets the defaults.
RetryTransaction ==
    /\ retry.pc = "idle"
    /\ \E maxRetries \in (0..MaxRetriesArg) \cup {DEFAULT_MAX_RETRIES},
          baseDelay \in {DEFAULT_BASE_DELAY, 250} :
         LET r == [IdleRetry EXCEPT !.maxRetries = maxRetries, !.baseDelay = baseDelay]
         IN  retry' = IF 0 < maxRetries
                      THEN [r EXCEPT !.pc = "calling", !.calls = 1]
                      ELSE [r EXCEPT !.pc = "thrown", !.error = MsgMaxRetries]

\* 437: return await fn()
FnResolved ==
    /\ retry.pc = "calling"
    /\ retry' = [retry EXCEPT !.pc = "returned", !.result = retry.calls]

\* 438-449: fn() rejects: the error is rethrown, or the backoff starts
FnRejected ==
    /\ retry.pc = "calling"
    /\ \E code \in ErrorCodes :
         LET r == [retry EXCEPT !.errors = Append(@, code)]
         IN  retry' = IF retry.i = retry.maxRetries - 1 \/ RethrownAtOnce(code)
                      THEN [r EXCEPT !.pc = "thrown", !.error = code]
                      ELSE [r EXCEPT !.pc = "waiting",
                                     !.waits = Append(@, BackoffDelay(retry.baseDelay, retry.i))]

\* 448-450, 435-437: the delay has passed, i++, fn is invoked again
BackoffElapsed ==
    /\ retry.pc = "waiting"
    /\ retry' = [retry EXCEPT !.i = @ + 1, !.calls = @ + 1, !.pc = "calling"]

\* the promise of retryTransaction has settled
RetrySettled ==
    /\ retry.pc \in {"returned", "thrown"}
    /\ retry' = IdleRetry

(***************************************************************************)
(* Advanced V3 routing, v3AdvancedRouting.ts: findAllV3Routes collects the *)
(* candidates, selectBestRoute picks one.  A candidate is kept as its hop  *)
(* count, its intermediate token, its score and the place it has in the    *)
(* list findAllV3Routes built.                                             *)
(***************************************************************************)
\* 55: const feeTiers = [LOWEST, LOW, MEDIUM, HIGH]
routingFeeTiers == <<LOWEST, LOW, MEDIUM, HIGH>>

\* 191: const commonTokens = [WETH, USDC, USDT, DAI]
commonTokens == <<WETH_ADDRESS, "USDC", "USDT", "DAI">>

\* the tokens findAllV3Routes is called with
RoutingTokens == {WETH_ADDRESS, "USDC", "TKN"}

\* the maxHops argument (the default is 3)
MaxHopsArgs == 0..3

\* the scores a candidate may get, and the most candidates the chain has pools for
MaxScore == 2
MaxRoutes == 3
Scores == 1..MaxScore

\* a plausible slip: every common token is an intermediate
AllCommonTokens(tokenIn, tokenOut) == commonTokens

\* 181-203: the common tokens that are neither tokenIn nor tokenOut, in order
getCommonIntermediateTokens(tokenIn, tokenOut) ==
    SelectSeq(commonTokens, LAMBDA token : token # tokenIn /\ token # tokenOut)

\* a plausible slip: the comparator sorts by ascending score
compareAscending(a, b) == a.score - b.score

\* 142: (a, b) => b.score - a.score
compareRoutes(a, b) == b.score - a.score

\* Array.prototype.sort, a stable sort: x is put before the first element it
\* compares less than, behind everything else
InsertRoute(x, sorted) ==
    LET before == {i \in 1..Len(sorted) : compareRoutes(x, sorted[i]) < 0}
        at == IF before = {} THEN Len(sorted) + 1
              ELSE CHOOSE i \in before : \A j \in before : i <= j
    IN  SubSeq(sorted, 1, at - 1) \o <<x>> \o SubSeq(sorted, at, Len(sorted))

RECURSIVE SortRoutes(_)
SortRoutes(routes) ==
    IF routes = <<>> THEN <<>>
    ELSE InsertRoute(routes[Len(routes)], SortRoutes(SubSeq(routes, 1, Len(routes) - 1)))

NoCandidate == [hops |-> 0, via |-> Null, score |-> 0, found |-> 0]

\* 138-145: null for no routes, else the first of the sorted routes
selectBestRoute(routes) ==
    IF Len(routes) = 0 THEN NoCandidate ELSE SortRoutes(routes)[1]

IdleRouting ==
    [pc |-> "idle", tokenIn |-> Null, tokenOut |-> Null, maxHops |-> 0,
     tier |-> 0, fee2 |-> 0, via |-> 0, routes |-> <<>>, threw |-> FALSE,
     best |-> NoCandidate]

\* 85, 88: the single-hop loop has ended; the two-hop loops start where
\* maxHops > 1 and there is an intermediate token, else the routes are returned
AfterDirect(a) ==
    IF a.maxHops > 1 /\ Len(getCommonIntermediateTokens(a.tokenIn, a.tokenOut)) > 0
    THEN [a EXCEPT !.pc = "hops", !.via = 1, !.tier = 1, !.fee2 = 1]
    ELSE [a EXCEPT !.pc = "returned", !.tier = 0]

\* 58, 93-96: the next iteration of the loop the call is in
NextCandidate(a) ==
    IF a.pc = "direct"
    THEN IF a.tier < Len(routingFeeTiers)
         THEN [a EXCEPT !.tier = @ + 1]
         ELSE AfterDirect(a)
    ELSE IF a.fee2 < Len(routingFeeTiers)
         THEN [a EXCEPT !.fee2 = @ + 1]
    ELSE IF a.tier < Len(routingFeeTiers)
         THEN [a EXCEPT !.tier = @ + 1, !.fee2 = 1]
    ELSE IF a.via < Len(getCommonIntermediateTokens(a.tokenIn, a.tokenOut))
         THEN [a EXCEPT !.via = @ + 1, !.tier = 1, !.fee2 = 1]
    ELSE [a EXCEPT !.pc = "returned", !.via = 0, !.tier = 0, !.fee2 = 0]

\* a plausible slip: the error of a candidate leaves findAllV3Routes
CandidateRethrown(a) == [a EXCEPT !.pc = "failed"]

\* 82-84, 125-127: catch (error) { continue; }
CandidateCaught(a) == NextCandidate([a EXCEPT !.threw = TRUE])

\* 72-80, 115-123: routes.push({...})
PushRoute(a, score) ==
    LET via == IF a.pc = "direct" THEN Null
               ELSE getCommonIntermediateTokens(a.tokenIn, a.tokenOut)[a.via]
        hops == IF a.pc = "direct" THEN 1 ELSE 2
    IN  [a EXCEPT !.routes = Append(@, [hops |-> hops, via |-> via, score |-> score,
                                        found |-> Len(@) + 1])]

\* 45-57: the call, up to the first getPool
FindAllV3Routes ==
    /\ adv.pc = "idle"
    /\ \E tokenIn \in RoutingTokens, tokenOut \in RoutingTokens, maxHops \in MaxHopsArgs :
         /\ tokenIn # tokenOut
         /\ adv' = [IdleRouting EXCEPT !.pc = "direct", !.tokenIn = tokenIn,
                                    !.tokenOut = tokenOut, !.maxHops = maxHops,
                                    !.tier = 1]

\* 58-85, 97-128: one iteration of a loop: the pool calls and the pricing
\* give a route, or there is no pool (continue), or one of them throws
CandidateAnswered ==
    /\ adv.pc \in {"direct", "hops"}
    /\ \/ \E score \in Scores :
            /\ Len(adv.routes) < MaxRoutes
            /\ adv' = NextCandidate(PushRoute(adv, score))
       \/ adv' = NextCandidate(adv)
       \/ adv' = CandidateCaught(adv)

\* 138-145: selectBestRoute of the routes findAllV3Routes returned
SelectBestRoute ==
    /\ adv.pc = "returned"
    /\ adv' = [adv EXCEPT !.pc = "selected", !.best = selectBestRoute(adv.routes)]

(***************************************************************************)
(* The V4 pool key of one trade, as it is built for discovery              *)
(* (useV4Trade.ts 51-64), for the quote (134-149) and for execution        *)
(* (useV4Trade.ts 296-300 into executeV4Swap).  An address is its first    *)
(* two hex characters, each a character code, in the checksummed form the  *)
(* SDK's Token gives it; strings compare by character code, as in          *)
(* JavaScript.  There are two executeV4Swap in the sources: the one of     *)
(* v4UniversalRouter.ts ("router") and the one of the unnamed file part_002*)
(* ("planner"); either may be the one that is built.                       *)
(***************************************************************************)
\* useV4Trade.ts 106: NATIVE_ETH_ADDRESS, "00"
NATIVE_ETH_CHARS == <<48, 48>>

\* constants.ts 5: WETH_ADDRESS 0xC02a..., "C0"
WETH_CHARS == <<67, 48>>

\* token addresses: 0xA0b8... (USDC), 0xae7a... (stETH), 0xdAC1... (USDT), 0x6B17... (DAI)
KeyTokens == {<<65, 48>>, <<97, 101>>, <<100, 65>>, <<54, 66>>}

\* String.prototype.toLowerCase
toLowerCase(str) ==
    [i \in 1..Len(str) |-> IF str[i] >= 65 /\ str[i] <= 90 THEN str[i] + 32 ELSE str[i]]

\* a < b on strings of one length: the first differing character decides
StringLess(a, b) ==
    \E i \in 1..Len(a) :
        /\ a[i] < b[i]
        /\ \A j \in 1..(i - 1) : a[j] = b[j]

\* useV4Trade.ts 52-57, 134-139: feeToTickSpacing
feeToTickSpacing(fee) ==
    CASE fee = LOWEST -> 1
      [] fee = LOW -> 10
      [] fee = MEDIUM -> 60
      [] fee = HIGH -> 200

\* v4UniversalRouter.ts 78, part_002 79: tickSpacing: 60
EXECUTION_TICK_SPACING == 60

NoKey == [currency0 |-> <<>>, currency1 |-> <<>>, fee |-> 0, tickSpacing |-> 0]

\* useV4Trade.ts 61-64: the key Pool.getPoolId hashes
DiscoveryPoolKey(tokenA, tokenB, fee) ==
    LET aFirst == StringLess(toLowerCase(tokenA), toLowerCase(tokenB)) IN
    [currency0 |-> IF aFirst THEN tokenA ELSE tokenB,
     currency1 |-> IF aFirst THEN tokenB ELSE tokenA,
     fee |-> fee, tickSpacing |-> feeToTickSpacing(fee)]

\* useV4Trade.ts 141-147: the key passed to the quoter
QuotePoolKey(tokenIn, tokenOut, fee) ==
    LET inFirst == StringLess(tokenIn, tokenOut) IN
    [currency0 |-> IF inFirst THEN tokenIn ELSE tokenOut,
     currency1 |-> IF inFirst THEN tokenOut ELSE tokenIn,
     fee |-> fee, tickSpacing |-> feeToTickSpacing(fee)]

\* v4UniversalRouter.ts 74-80, part_002 75-81: the key of the swap
ExecutionPoolKey(tokenIn, tokenOut, fee) ==
    LET inFirst == StringLess(tokenIn, tokenOut) IN
    [currency0 |-> IF inFirst THEN tokenIn ELSE tokenOut,
     currency1 |-> IF inFirst THEN tokenOut ELSE tokenIn,
     fee |-> fee, tickSpacing |-> EXECUTION_TICK_SPACING]

\* part_002 98-100: the actions given to V4Planner; v4UniversalRouter.ts
\* 88-94: the V4_SWAP command is given the swap's parameters, no action list
PlannedActions(variant, poolKey) ==
    IF variant = "planner"
    THEN <<[action |-> "SWAP_EXACT_IN_SINGLE", currency |-> <<>>],
           [action |-> "SETTLE_ALL", currency |-> poolKey.currency0],
           [action |-> "TAKE_ALL", currency |-> poolKey.currency1]>>
    ELSE <<>>

IdleKey ==
    [pc |-> "idle", token |-> <<>>, isBuying |-> FALSE, variant |-> Null,
     poolToken0 |-> <<>>, poolToken1 |-> <<>>,
     execTokenIn |-> <<>>, execTokenOut |-> <<>>,
     discovery |-> NoKey, quote |-> NoKey, execution |-> NoKey, actions |-> <<>>]

\* useV4Trade.ts 106-115, 37-76: calculateTrade finds the pool of a fee tier;
\* poolInfo keeps tokenA and tokenB as token0 and token1
V4KeyDiscovered ==
    /\ key.pc = "idle"
    /\ \E token \in KeyTokens, isBuying \in BOOLEAN, i \in 1..Len(feeTiers) :
         LET tokenIn == IF isBuying THEN NATIVE_ETH_CHARS ELSE token
             tokenOut == IF isBuying THEN token ELSE NATIVE_ETH_CHARS
         IN  key' = [IdleKey EXCEPT !.pc = "discovered", !.token = token,
                                    !.isBuying = isBuying,
                                    !.poolToken0 = tokenIn, !.poolToken1 = tokenOut,
                                    !.discovery = DiscoveryPoolKey(tokenIn, tokenOut, feeTiers[i])]

\* useV4Trade.ts 141-160: the quoter is called with its pool key
V4KeyQuoted ==
    /\ key.pc = "discovered"
    /\ LET tokenIn == IF key.isBuying THEN NATIVE_ETH_CHARS ELSE key.token
           tokenOut == IF key.isBuying THEN key.token ELSE NATIVE_ETH_CHARS
       IN  key' = [key EXCEPT !.pc = "quoted",
                              !.quote = QuotePoolKey(tokenIn, tokenOut, key.discovery.fee)]

\* useV4Trade.ts 296-322 into executeV4Swap: the swap command is built
V4KeyExecuted ==
    /\ key.pc = "quoted"
    /\ \E variant \in {"router", "planner"} :
         LET tokenIn == IF key.isBuying THEN WETH_CHARS ELSE key.poolToken0
             tokenOut == IF key.isBuying THEN key.poolToken1 ELSE WETH_CHARS
             poolKey == ExecutionPoolKey(tokenIn, tokenOut, key.discovery.fee)
         IN  key' = [key EXCEPT !.pc = "executed", !.variant = variant,
                                !.execTokenIn = tokenIn, !.execTokenOut = tokenOut,
                                !.execution = poolKey,
                                !.actions = PlannedActions(variant, poolKey)]

(***************************************************************************)
(* The inputs of the trade form and the effects of useTradeCalculation.    *)
(* Time is counted in steps of TickMs milliseconds.                        *)
(***************************************************************************)

\* the delay of setTimeout in the token info effect
DEBOUNCE_MS == 500
TickMs == 250
MaxChanges == 3

\* what the user can type into the address field and the amount field
FormAddresses == {"", "0x12", "TKN"}
FormAmounts == {"", "0", "1", "2"}
\* the output amount of the route shown by the trade state
RouteOutputs == {"5"}

\* useToken: hasLiquidity is true in the initial state, after a fetch and
\* after clearTokenInfo
hasLiquidity == TRUE

NoCall == [tokenAddress |-> Null, amount |-> Null, isBuying |-> FALSE]

\* the form after mount: the token info effect has armed its timer
IdleForm ==
    [tokenAddress |-> "", ethAmount |-> "", tokenAmount |-> "", isBuying |-> TRUE,
     timerArmed |-> TRUE, timerLeft |-> DEBOUNCE_MS, fetched |-> Null,
     quiet |-> DEBOUNCE_MS, burst |-> 0, calledAfter |-> DEBOUNCE_MS, last |-> NoCall,
     cleared |-> FALSE, lastOutputRef |-> "", changes |-> 0]

\* the second effect: runs in the render that follows a change of ethAmount,
\* tokenAmount, isBuying, tokenAddress or hasLiquidity
CalculateEffect(f, byInput) ==
    IF f.tokenAddress = "" \/ ~isAddress(f.tokenAddress) \/ ~hasLiquidity
    THEN f
    ELSE LET amount == IF f.isBuying THEN f.ethAmount ELSE f.tokenAmount IN
         IF amount # "" /\ ~amountIsRejected(amount)
         THEN [f EXCEPT !.last = [tokenAddress |-> f.tokenAddress, amount |-> amount,
                                  isBuying |-> f.isBuying],
                        !.cleared = FALSE,
                        !.burst = IF byInput THEN @ + 1 ELSE @,
                        !.calledAfter = IF byInput THEN f.quiet ELSE @]
         ELSE [f EXCEPT !.cleared = TRUE]

\* an input of the user: the time without a change starts again
Changed(f) == [f EXCEPT !.quiet = 0, !.changes = @ + 1]

\* TokenAddressInput onChange={setTokenAddress}: the first effect clears its
\* timer and arms a new one, the second effect runs
SetTokenAddress ==
    /\ form.changes < MaxChanges
    /\ \E address \in FormAddresses \ {form.tokenAddress} :
         form' = CalculateEffect(
                     [Changed(form) EXCEPT !.tokenAddress = address,
                                           !.timerArmed = TRUE,
                                           !.timerLeft = DEBOUNCE_MS], TRUE)

\* AmountInput onChange={isBuying ? setEthAmount : setTokenAmount}
SetAmount ==
    /\ form.changes < MaxChanges
    /\ \E amount \in FormAmounts :
         /\ amount # (IF form.isBuying THEN form.ethAmount ELSE form.tokenAmount)
         /\ form' = CalculateEffect(
                        IF form.isBuying
                        THEN [Changed(form) EXCEPT !.ethAmount = amount]
                        ELSE [Changed(form) EXCEPT !.tokenAmount = amount], TRUE)

\* handleSwapMode: the direction flips, both amounts are emptied, clearTrade
HandleSwapMode ==
    /\ form.changes < MaxChanges
    /\ form' = CalculateEffect(
                   [Changed(form) EXCEPT !.isBuying = ~@, !.ethAmount = "",
                                         !.tokenAmount = "", !.cleared = TRUE], TRUE)

\* TickMs milliseconds pass without an input; a timer that is due fires first
TimePasses ==
    /\ ~(form.timerArmed /\ form.timerLeft = 0)
    /\ form.quiet < DEBOUNCE_MS \/ form.timerArmed
    /\ LET quiet == IF form.quiet + TickMs > DEBOUNCE_MS THEN DEBOUNCE_MS
                    ELSE form.quiet + TickMs
       IN  form' = [form EXCEPT !.quiet = quiet,
                                !.burst = IF quiet = DEBOUNCE_MS THEN 0 ELSE @,
                                !.timerLeft = IF ~form.timerArmed THEN @
                                              ELSE IF @ < TickMs THEN 0 ELSE @ - TickMs]

\* the callback of setTimeout in the first effect
DebounceTimerFired ==
    /\ form.timerArmed /\ form.timerLeft = 0
    /\ form' = [form EXCEPT !.timerArmed = FALSE,
                            !.fetched = IF form.tokenAddress # "" /\ isAddress(form.tokenAddress)
                                        THEN form.tokenAddress
                                        ELSE IF form.tokenAddress # "" THEN Null ELSE @]

\* the third effect: a route with a new output amount is shown and no
\* calculation is running; the output is copied into the other amount field,
\* which is a dependency of the second effect
RouteOutputShown ==
    /\ form.last # NoCall /\ ~form.cleared
    /\ \E routeOutputAmount \in RouteOutputs :
         /\ routeOutputAmount # form.lastOutputRef
         /\ LET shown == [form EXCEPT !.lastOutputRef = routeOutputAmount]
                filled == IF form.isBuying
                          THEN [shown EXCEPT !.tokenAmount = routeOutputAmount]
                          ELSE [shown EXCEPT !.ethAmount = routeOutputAmount]
            IN  form' = IF filled = shown THEN shown ELSE CalculateEffect(filled, FALSE)

(***************************************************************************)
(* The position operations of v4PositionManager: mint, add liquidity,      *)
(* remove liquidity, collect fees.  Each plans one universal router        *)
(* execute call, simulates it and submits it under retryTransaction.       *)
(***************************************************************************)

\* largest gas estimate the node answers
MaxGas == 7
\* gasEstimate * 20n / 100n
GAS_BUFFER_PERCENT == 20
\* calculateSafeDeadline(baseMinutes: number = 20, ...)
SAFE_DEADLINE_MINUTES == 20

PositionOps == {"mint", "addLiquidity", "removeLiquidity", "collectFees"}
\* deadlineMinutes of MintPositionParams; 0 stands for undefined
DeadlineMinutes == {0, 10}

\* the first ten characters of error.data: the four selectors of knownErrors,
\* another selector, a string that holds no "0x", data that is no string, and
\* an error without data
DataValues ==
    {"0x025dbdd4", "0xf4844814", "0x4e487b71", "0x08c379a0", "0xdeadbeef",
     "reverted", "object", Null}
ReasonText == "execution reverted: STF"
MessageText == "call revert exception (method=\"execute\", code=CALL_EXCEPTION)"
MsgWouldFail == "Transaction would fail"

\* what staticCall or estimateGas throws
ProviderErrors == [data : DataValues, reason : {Null, ReasonText}, message : {Null, MessageText}]
NoError == [data |-> Null, reason |-> Null, message |-> Null]

\* the outcome of staticCall followed by estimateGas
SimulationAnswers ==
    [kind : {"ok"}, gas : 1..MaxGas, error : {NoError}]
        \cup [kind : {"error"}, gas : {0}, error : ProviderErrors]
NoAnswer == [kind |-> "none", gas |-> 0, error |-> NoError]

\* errorData.includes('0x'); data that is no string has no includes method
includes0x(data) == data \notin {"reverted", "object"}

\* knownErrors[selector], Null for undefined
knownErrors(selector) ==
    CASE selector = "0x025dbdd4" -> "Insufficient liquidity"
      [] selector = "0xf4844814" -> "Price slippage too high"
      [] selector = "0x4e487b71" -> "Arithmetic overflow/underflow"
      [] selector = "0x08c379a0" -> "Generic revert"
      [] OTHER -> Null

parseContractError(error) ==
    IF error.data # Null /\ includes0x(error.data) /\ knownErrors(error.data) # Null
    THEN knownErrors(error.data)
    ELSE IF error.reason # Null THEN error.reason
    ELSE IF error.message # Null THEN error.message
    ELSE MsgWouldFail

\* the estimate is passed on as it is
withoutGasBuffer(gasEstimate) == gasEstimate

\* gasEstimate + (gasEstimate * 20n / 100n)
withGasBuffer(gasEstimate) == gasEstimate + ((gasEstimate * GAS_BUFFER_PERCENT) \div 100)

simulateTransaction(answer) ==
    IF answer.kind = "ok"
    THEN [success |-> TRUE, gasEstimate |-> withGasBuffer(answer.gas), error |-> Null]
    ELSE [success |-> FALSE, gasEstimate |-> 0, error |-> parseContractError(answer.error)]
NoSimulation == [success |-> FALSE, gasEstimate |-> 0, error |-> Null]

\* the outcome of the simulation is not looked at
simulationIgnored(simulation) == FALSE

\* if (!simulation.success) throw ...
simulationFailed(simulation) == ~simulation.success

\* baseMinutes * congestionMultiplier['medium'] minutes from now, in seconds
calculateSafeDeadline(baseMinutes, now) == now + ((baseMinutes * 3 * 60) \div 2)

\* the actions the V4Planner holds when the operation finalizes it
PlannedPositionActions(op) ==
    CASE op = "mint" -> <<"MINT_POSITION", "SETTLE_ALL", "SETTLE_ALL">>
      [] op = "addLiquidity" -> <<"INCREASE_LIQUIDITY">>
      [] op = "removeLiquidity" -> <<"DECREASE_LIQUIDITY">>
      [] op = "collectFees" -> <<"DECREASE_LIQUIDITY", "TAKE_ALL", "TAKE_ALL">>

\* [routePlanner.commands, routePlanner.inputs, deadline]
PlannedCall(op, deadlineMinutes) ==
    [method |-> "execute", commands |-> "V4_SWAP", inputs |-> PlannedPositionActions(op),
     deadline |-> calculateSafeDeadline(
                      IF op = "mint" /\ deadlineMinutes # 0 THEN deadlineMinutes
                      ELSE SAFE_DEADLINE_MINUTES, StartTime)]
NoPlannedCall == [method |-> Null, commands |-> Null, inputs |-> <<>>, deadline |-> 0]

NothingThrown == [by |-> Null, error |-> Null]

\* One position operation.  call is what the operation planned, simulated
\* the arguments simulateTransaction was called with, answer what the node
\* answered to it, submitted the execute calls made, in order.
IdlePosition ==
    [pc |-> "idle", op |-> Null, call |-> NoPlannedCall, simulated |-> NoPlannedCall,
     answer |-> NoAnswer, simulation |-> NoSimulation, i |-> 0, submitted |-> <<>>,
     returned |-> FALSE, thrown |-> NothingThrown]

\* the operation up to the await of simulateTransaction; mintV4Position
\* validates its parameters first and throws when they are not valid
PositionCalled ==
    /\ pos.pc = "idle"
    /\ \E op \in PositionOps, deadlineMinutes \in DeadlineMinutes, valid \in BOOLEAN :
         /\ op # "mint" => deadlineMinutes = 0 /\ valid
         /\ pos' = IF ~valid
                   THEN [pos EXCEPT !.pc = "done", !.op = op,
                                    !.thrown = [by |-> "validation", error |-> "invalid"]]
                   ELSE [pos EXCEPT !.pc = "simulating", !.op = op,
                                    !.call = PlannedCall(op, deadlineMinutes)]

\* simulateTransaction returns; the operation throws or goes on to
\* retryTransaction
SimulationAnswered ==
    /\ pos.pc = "simulating"
    /\ \E answer \in SimulationAnswers :
         LET simulation == simulateTransaction(answer) IN
         pos' = IF simulationFailed(simulation)
                THEN [pos EXCEPT !.pc = "done", !.simulated = pos.call, !.answer = answer,
                                 !.simulation = simulation,
                                 !.thrown = [by |-> "simulation", error |-> simulation.error]]
                ELSE [pos EXCEPT !.pc = "submitting", !.simulated = pos.call,
                                 !.answer = answer, !.simulation = simulation]

\* one round of the loop of retryTransaction: universalRouter.execute is
\* called with the planned arguments and the gas limit of the simulation
ExecuteAnswered ==
    /\ pos.pc = "submitting"
    /\ \E code \in {"tx", "ACTION_REJECTED", "INVALID_ARGUMENT", "NETWORK_ERROR"} :
         LET sent == [pos EXCEPT !.submitted =
                          Append(@, [call |-> pos.call,
                                     gasLimit |-> pos.simulation.gasEstimate])]
         IN  pos' = IF code = "tx"
                    THEN [sent EXCEPT !.pc = "done", !.returned = TRUE]
                    ELSE IF \/ pos.i = DEFAULT_MAX_RETRIES - 1
                            \/ code \in {"ACTION_REJECTED", "INVALID_ARGUMENT"}
                    THEN [sent EXCEPT !.pc = "done",
                                      !.thrown = [by |-> "execute", error |-> code]]
                    ELSE [sent EXCEPT !.i = @ + 1]

(***************************************************************************)
(* useTradeExecution: the status shown for the trades the user starts.     *)
(* The swap button stays enabled while a trade is loading, so a trade can  *)
(* be started before an earlier one has settled or its timer has fired.    *)
(***************************************************************************)

\* setTimeout(() => setTxStatus(null), 5000)
CLEAR_DELAY_MS == 5000
ClearTickMs == 2500
MaxTrades == 3
Trades == 1..MaxTrades

\* useState<TxStatus>(null); of is the trade whose step set the status
NoStatus == [type |-> Null, message |-> Null, of |-> 0]
StatusOf(r, type, message) == [type |-> type, message |-> message, of |-> r]

\* pc: idle, calling (awaiting executeTradeCallback), waiting (awaiting
\* tx.wait()), done.  onSuccess counts the runs of the callback, timer is the
\* time left on the trade's clear timer (-1: none).
IdleTrade == [pc |-> "idle", outcome |-> Null, onSuccess |-> 0, timer |-> -1]
IdleTrades == [txStatus |-> NoStatus, call |-> [r \in Trades |-> IdleTrade]]

TradeInFlight(r) == trades.call[r].pc \in {"calling", "waiting"}

\* the callback is run as soon as the transaction is submitted
onSuccessAtSubmission(t) == [t EXCEPT !.pc = "waiting", !.onSuccess = @ + 1]

\* 33-34: the callback resolved with the submitted transaction
Submitted(t) == [t EXCEPT !.pc = "waiting"]

\* 36-41: tx.wait() resolved
Confirmed(t) ==
    [t EXCEPT !.pc = "done", !.outcome = "confirmed", !.onSuccess = @ + 1,
              !.timer = CLEAR_DELAY_MS]

\* 42-46: the catch block
Failed(t, message) == [t EXCEPT !.pc = "done", !.outcome = message]

\* 30-33: executeTrade is called
ExecuteTradeCalled(r) ==
    /\ trades.call[r].pc = "idle"
    /\ \A q \in Trades : q < r => trades.call[q].pc # "idle"
    /\ trades' = [trades EXCEPT !.txStatus = StatusOf(r, "loading", "preparing"),
                                !.call[r].pc = "calling"]

\* 33-36: executeTradeCallback resolves
CallbackResolved(r) ==
    /\ trades.call[r].pc = "calling"
    /\ trades' = [trades EXCEPT !.txStatus = StatusOf(r, "loading", "submitted"),
                                !.call[r] = Submitted(@)]

\* 33, 42-46: executeTradeCallback rejects
CallbackRejected(r) ==
    /\ trades.call[r].pc = "calling"
    /\ trades' = [trades EXCEPT !.txStatus = StatusOf(r, "error", "rejected"),
                                !.call[r] = Failed(@, "rejected")]

\* 36-41: the confirmation wait resolves
WaitResolved(r) ==
    /\ trades.call[r].pc = "waiting"
    /\ trades' = [trades EXCEPT !.txStatus = StatusOf(r, "success", "successful"),
                                !.call[r] = Confirmed(@)]

\* 36, 42-46: the confirmation wait rejects
WaitRejected(r) ==
    /\ trades.call[r].pc = "waiting"
    /\ trades' = [trades EXCEPT !.txStatus = StatusOf(r, "error", "reverted"),
                                !.call[r] = Failed(@, "reverted")]

\* ClearTickMs milliseconds pass; a timer that is due fires first
ClearTimePasses ==
    /\ \E r \in Trades : trades.call[r].timer > 0
    /\ \A r \in Trades : trades.call[r].timer # 0
    /\ trades' = [trades EXCEPT !.call =
                      [r \in Trades |->
                          [@[r] EXCEPT !.timer = IF @ < 0 THEN @
                                                 ELSE IF @ < ClearTickMs THEN 0
                                                 ELSE @ - ClearTickMs]]]

\* 41: the callback of setTimeout
ClearTimerFired(r) ==
    /\ trades.call[r].timer = 0
    /\ trades' = [trades EXCEPT !.txStatus = NoStatus, !.call[r].timer = -1]

(***************************************************************************)
(* The executionPrice of a route, as useV4Trade and useV3Trade compute it  *)
(* for the same input amount, output amount and direction.  Amounts are    *)
(* whole tokens; a price is a fraction n / d.                              *)
(***************************************************************************)
\* amounts whose ratios have at most six significant digits
PriceAmounts == {1, 2, 4, 5, 8, 10, 16, 20}

\* Fraction.toSignificant(6) of num / den > 0 with the default rounding of
\* Price, ROUND_HALF_UP: the power of ten that leaves six digits before the
\* point, then the nearest whole number
RECURSIVE SignificantScale(_, _, _)
SignificantScale(num, den, k) ==
    IF num * Pow10(k) >= den * Pow10(5) THEN k ELSE SignificantScale(num, den, k + 1)

toSignificant6HalfUp(num, den) ==
    LET k == SignificantScale(num, den, 0)
    IN  [n |-> (2 * num * Pow10(k) + den) \div (2 * den), d |-> Pow10(k)]

\* (num / den).toFixed(6), in millionths
ratioToFixed6(num, den) ==
    {[n |-> m, d |-> Pow10(6)] : m \in toFixed6(Pow10(6), num, den, 6)}

\* useV4Trade.ts 223-227: isBuying ? inputFloat / outputFloat : outputFloat / inputFloat
V4ExecutionPrice(input, output, isBuying) ==
    IF isBuying THEN ratioToFixed6(input, output) ELSE ratioToFixed6(output, input)

\* useWeb3.ts 350-366: trade.executionPrice.toSignificant(6); the Trade of
\* @uniswap/v3-sdk builds it as new Price(inputAmount.currency,
\* outputAmount.currency, inputAmount.quotient, outputAmount.quotient):
\* output per input, in both directions
V3ExecutionPrice(input, output, isBuying) == toSignificant6HalfUp(output, input)

\* the denominators are powers of ten
SamePrice(a, b) ==
    LET m == IF a.d >= b.d THEN a.d ELSE b.d
    IN  a.n * (m \div a.d) = b.n * (m \div b.d)

IdlePrice ==
    [pc |-> "idle", input |-> 0, output |-> 0, isBuying |-> FALSE,
     v4 |-> NoAmount, v3 |-> NoAmount]

\* the quoters of both versions have answered the same output for the input
PricesAsked ==
    /\ price.pc = "idle"
    /\ \E input \in PriceAmounts, output \in PriceAmounts, isBuying \in BOOLEAN :
         price' = [IdlePrice EXCEPT !.pc = "asked", !.input = input, !.output = output,
                                    !.isBuying = isBuying]

\* useV4Trade.ts 214-252: the V4 route is built
V4PriceBuilt ==
    /\ price.pc = "asked" /\ price.v4 = NoAmount
    /\ \E p \in V4ExecutionPrice(price.input, price.output, price.isBuying) :
         price' = [price EXCEPT !.v4 = p]

\* useWeb3.ts 343-372: the V3 route is built
V3PriceBuilt ==
    /\ price.pc = "asked" /\ price.v3 = NoAmount
    /\ price' = [price EXCEPT !.v3 = V3ExecutionPrice(price.input, price.output,
                                                       price.isBuying)]

(***************************************************************************)
(* executeV4MultiHopSwap (v4PositionManager.ts 577-703): the validation of *)
(* the path, the actions planned for it, and the calls to the network.     *)
(***************************************************************************)
\* longest tokens array a caller passes
MaxPath == 4
\* the path a caller passes is a prefix of this one
FullPath == <<"ETH", "USDC", "DAI", "TKN", "WBTC">>
HopFees == {LOW, LOWEST}
\* amountIn and amountOutMinimum of the caller, in raw units
HopAmountIn == 3
HopAmountOutMinimum == 7

PathsOf(n) == {SubSeq(FullPath, 1, n)}
RECURSIVE FeeLists(_)
FeeLists(n) ==
    IF n = 0 THEN {<<>>}
    ELSE {Append(fs, f) : fs \in FeeLists(n - 1), f \in HopFees}

\* 614-636: the swap of hop i; the first hop carries the input amount and no
\* minimum, a later hop no input amount and the minimum if it is the last
HopSwap(tokens, fees, i, amountIn, amountOutMinimum) ==
    LET isFirstHop == i = 1
        isLastHop == i = Len(tokens) - 1
    IN  [action |-> "SWAP_EXACT_IN_SINGLE", tokenIn |-> tokens[i], tokenOut |-> tokens[i + 1],
         fee |-> fees[i],
         amountIn |-> IF isFirstHop THEN amountIn ELSE 0,
         amountOutMinimum |-> IF isFirstHop THEN 0
                              ELSE IF isLastHop THEN amountOutMinimum ELSE 0]

\* 596-637: the loop over the multiHop, from hop i on
RECURSIVE HopSwaps(_, _, _, _, _)
HopSwaps(tokens, fees, i, amountIn, amountOutMinimum) ==
    IF i > Len(tokens) - 1 THEN <<>>
    ELSE <<HopSwap(tokens, fees, i, amountIn, amountOutMinimum)>>
             \o HopSwaps(tokens, fees, i + 1, amountIn, amountOutMinimum)

\* 596-643: the actions the V4Planner holds when it is finalized
MultiHopActions(tokens, fees, amountIn, amountOutMinimum) ==
    HopSwaps(tokens, fees, 1, amountIn, amountOutMinimum)
        \o <<[action |-> "SETTLE_ALL", currency |-> tokens[1], amount |-> amountIn],
             [action |-> "TAKE_ALL", currency |-> tokens[Len(tokens)],
              amount |-> amountOutMinimum]>>

\* 590-595: the message of the validation, Null for a path that passes
MultiHopValidation(tokens, fees) ==
    IF Len(tokens) < 2 THEN "Multi-hop swap requires at least 2 tokens"
    ELSE IF Len(fees) # Len(tokens) - 1 THEN "Fees array must have length = tokens.length - 1"
    ELSE Null

\* One executeV4MultiHopSwap call.  calls is the list of network calls made.
IdleMultiHop ==
    [pc |-> "idle", tokens |-> <<>>, fees |-> <<>>, isBuying |-> FALSE,
     amountOutMinimum |-> 0, actions |-> <<>>, calls |-> <<>>, thrown |-> Null]

\* 577-662: the call up to its first await: the validation, the plan, and the
\* allowance call of a sell or the execute call of a buy
ExecuteV4MultiHopSwap ==
    /\ multiHop.pc = "idle"
    /\ \E n \in 0..MaxPath, m \in 0..(MaxPath - 1), isBuying \in BOOLEAN :
       \E tokens \in PathsOf(n), fees \in FeeLists(m) :
         LET called == [multiHop EXCEPT !.tokens = tokens, !.fees = fees, !.isBuying = isBuying,
                                    !.amountOutMinimum = HopAmountOutMinimum]
             message == MultiHopValidation(tokens, fees)
         IN  multiHop' = IF message # Null
                     THEN [called EXCEPT !.pc = "thrown", !.thrown = message]
                     ELSE [called EXCEPT
                              !.actions = MultiHopActions(tokens, fees, HopAmountIn,
                                                          HopAmountOutMinimum),
                              !.pc = IF isBuying THEN "execute" ELSE "allowance",
                              !.calls = <<IF isBuying THEN "execute" ELSE "allowance">>]

\* 673-679: the allowance is known; an approval is sent and awaited when it
\* is short, then execute is called
MultiHopAllowanceAnswered ==
    /\ multiHop.pc = "allowance"
    /\ \E answer \in {"enough", "short", "failed"} :
         multiHop' = CASE answer = "enough" ->
                        [multiHop EXCEPT !.pc = "execute", !.calls = Append(@, "execute")]
                   [] answer = "short" ->
                        [multiHop EXCEPT !.pc = "execute",
                                     !.calls = @ \o <<"approve", "execute">>]
                   [] OTHER -> [multiHop EXCEPT !.pc = "thrown", !.thrown = "allowance failed"]

\* 683-693: universalRouter.execute answers
MultiHopExecuteAnswered ==
    /\ multiHop.pc = "execute"
    /\ \E ok \in BOOLEAN :
         multiHop' = IF ok THEN [multiHop EXCEPT !.pc = "returned"]
                 ELSE [multiHop EXCEPT !.pc = "thrown", !.thrown = "execute failed"]

(***************************************************************************)
(* Repeated calculateTrade calls over a fixed chain.  Both calls of a run  *)
(* get the inputs held in chain, and a network call that was answered once *)
(* is answered the same way from then on: chain keeps, for each call the   *)
(* code can issue for these inputs, the set of answers given so far (empty *)
(* or one answer).  The first call starts from a state that an earlier     *)
(* calculation of another amount left behind.  The answers are those of    *)
(* the routing steps less the ones that differ from another only in the    *)
(* text of the error (no message) or not at all (a liquidity of 0, which   *)
(* both versions treat as they treat a failed call).                       *)
(***************************************************************************)
NoChain ==
    [token |-> "", amount |-> "",
     metadata |-> {},
     v4Liquidity |-> [i \in 1..Len(feeTiers) |-> {}],
     v4Quote |-> {}, v4Spot |-> {}, v4Impact |-> {},
     v3Pool |-> [i \in 1..Len(feeTiers) |-> {}],
     v3Quote |-> {}]

\* the chain may answer a: the call was not asked before, or a was its answer
Answers(asked, a) == asked \subseteq {a}

\* the amount of the earlier calculation and the pool and routes it found
LeftAmount == "2"

\* the amounts of the repeated calls: accepted, and not that of the earlier one
RepeatAmounts == {amount \in Amounts : ~amountIsRejected(amount)} \ {LeftAmount}

\* what the pool calls of one fee tier may answer to the repeated calls: a
\* failure, a pool below MIN_LIQUIDITY_THRESHOLD, a pool above it
RepeatLiquidityAnswers == {a \in LiquidityAnswers : a.answered => a.liquidity > 0}

\* of the answers S of a call, those that succeed or fail with a message
WithMessage(S) == {a \in S : a.ok \/ a.msg # ""}
LeftPool == [fee |-> HIGH, liquidity |-> 500000]
LeftV4Route == [version |-> "V4", inputAmount |-> LeftAmount, outputAmount |-> 1, fee |-> HIGH]
LeftV3Route == [version |-> "V3", inputAmount |-> LeftAmount, outputAmount |-> 1, fee |-> HIGH]

\* states an earlier calculation leaves: none was made; it selected a V4
\* route; it found no V4 pool and selected a V3 route; it found no pool
LeftBehind ==
    {[state |-> InitialState, v4State |-> InitialV4State, v3State |-> InitialV3State],
     [state |-> V4FoundState(LeftV4Route),
      v4State |-> [poolInfo |-> LeftPool, route |-> LeftV4Route,
                   isCalculating |-> FALSE, error |-> Null],
      v3State |-> InitialV3State],
     [state |-> V3FoundState(LeftV3Route),
      v4State |-> HookErrorState(InitialV4State, MsgNoV4Pool, MsgV4Default),
      v3State |-> [pool |-> LeftPool, route |-> LeftV3Route,
                   isCalculating |-> FALSE, error |-> Null]],
     [state |-> ErrorState(V3FailureMessage(MsgNoV3Pool)),
      v4State |-> HookErrorState(InitialV4State, MsgNoV4Pool, MsgV4Default),
      v3State |-> HookErrorState(InitialV3State, MsgNoV3Pool, MsgV3Default)]}

\* addressUtils.ts 54-68: a call with the repeated inputs
RepeatCalculateTrade(r) ==
    /\ CalculateTradeWith(r, TRUE, chain.token, chain.amount)
    /\ UNCHANGED chain

\* addressUtils.ts 64-73, 110-119: the metadata lookup is answered
RepeatMetadata(r) ==
    \E a \in WithMessage(MetadataAnswers) :
        /\ Answers(chain.metadata, a)
        /\ IF a.ok THEN MetadataResolved(r) ELSE MetadataRejectedWith(r, a.msg)
        /\ chain' = [chain EXCEPT !.metadata = {a}]

\* useV4Trade.ts 59-84: getLiquidity of the fee tier the loop is at
RepeatV4Liquidity(r) ==
    \E a \in RepeatLiquidityAnswers :
        /\ task[r].pc = "v4pool"
        /\ Answers(chain.v4Liquidity[task[r].tier], a)
        /\ V4LiquidityAnswered(r, a)
        /\ chain' = [chain EXCEPT !.v4Liquidity[task[r].tier] = {a}]

\* useV4Trade.ts 159-212: the V4 quoter call
RepeatV4Quote(r) ==
    \E a \in V4QuoteAnswers :
        /\ Answers(chain.v4Quote, a)
        /\ V4QuoteAnswered(r, a)
        /\ chain' = [chain EXCEPT !.v4Quote = {a}]

\* useV4Trade.ts 185-207: getSlot0 for the spot price
RepeatV4Spot(r) ==
    \E a \in V4SpotAnswers :
        /\ Answers(chain.v4Spot, a)
        /\ V4SpotAnswered(r, a)
        /\ chain' = [chain EXCEPT !.v4Spot = {a}]

\* useV4Trade.ts 230-266: getSlot0 for the price impact
RepeatV4Impact(r) ==
    \E a \in WithMessage(V4ImpactAnswers) :
        /\ Answers(chain.v4Impact, a)
        /\ V4ImpactAnswered(r, a)
        /\ chain' = [chain EXCEPT !.v4Impact = {a}]

\* useWeb3.ts 233-284: the pool calls of the fee tier the loop is at
RepeatV3Pool(r) ==
    \E a \in RepeatLiquidityAnswers :
        /\ task[r].pc = "v3pool"
        /\ Answers(chain.v3Pool[task[r].tier], a)
        /\ V3PoolAnswered(r, a)
        /\ chain' = [chain EXCEPT !.v3Pool[task[r].tier] = {a}]

\* useWeb3.ts 335-395: the V3 quoter call
RepeatV3Quote(r) ==
    \E a \in WithMessage(V3QuoteAnswers) :
        /\ Answers(chain.v3Quote, a)
        /\ V3QuoteAnswered(r, a)
        /\ chain' = [chain EXCEPT !.v3Quote = {a}]

(***************************************************************************)
(* Specifications.                                                         *)
(***************************************************************************)
Init ==
    /\ CalcInit
    /\ TimerInit
    /\ quote = IdleQuote
    /\ exec = IdleExec
    /\ retry = IdleRetry
    /\ disc = IdleDiscovery
    /\ multiHop = IdleMultiHop
    /\ price = IdlePrice
    /\ trades = IdleTrades
    /\ pos = IdlePosition
    /\ form = IdleForm
    /\ key = IdleKey
    /\ adv = IdleRouting
    /\ chain = NoChain

\* routing: calculateTrade and clearTrade of useMultiVersionTrade
Next ==
    \/ \E r \in Req : CalculateTrade(r) /\ UNCHANGED <<timerVars, quote, exec, retry, disc, chain, adv, key, form, pos, trades, price, multiHop>>
    \/ \E r \in Req : MetadataResolved(r) /\ UNCHANGED <<timerVars, quote, exec, retry, disc, chain, adv, key, form, pos, trades, price, multiHop>>
    \/ \E r \in Req : MetadataRejected(r) /\ UNCHANGED <<timerVars, quote, exec, retry, disc, chain, adv, key, form, pos, trades, price, multiHop>>
    \/ \E r \in Req : V4LiquidityResolved(r) /\ UNCHANGED <<timerVars, quote, exec, retry, disc, chain, adv, key, form, pos, trades, price, multiHop>>
    \/ \E r \in Req : V4QuoteResolved(r) /\ UNCHANGED <<timerVars, quote, exec, retry, disc, chain, adv, key, form, pos, trades, price, multiHop>>
    \/ \E r \in Req : V4SpotResolved(r) /\ UNCHANGED <<timerVars, quote, exec, retry, disc, chain, adv, key, form, pos, trades, price, multiHop>>
    \/ \E r \in Req : V4ImpactResolved(r) /\ UNCHANGED <<timerVars, quote, exec, retry, disc, chain, adv, key, form, pos, trades, price, multiHop>>
    \/ \E r \in Req : V3PoolResolved(r) /\ UNCHANGED <<timerVars, quote, exec, retry, disc, chain, adv, key, form, pos, trades, price, multiHop>>
    \/ \E r \in Req : V3QuoteResolved(r) /\ UNCHANGED <<timerVars, quote, exec, retry, disc, chain, adv, key, form, pos, trades, price, multiHop>>
    \/ ClearTrade /\ UNCHANGED <<timerVars, quote, exec, retry, disc, chain, adv, key, form, pos, trades, price, multiHop>>

Spec == Init /\ [][Next]_vars

\* lookups and time: one calculateTrade call, fetchTokenInfo, the clock
TimedNext ==
    \/ CalculateTrade(1) /\ calcWait' = 0 /\ UNCHANGED <<tokenInfo, fetch, quote, exec, retry, disc, chain, adv, key, form, pos, trades, price, multiHop>>
    \/ MetadataResolved(1) /\ calcWait' = 0 /\ UNCHANGED <<tokenInfo, fetch, quote, exec, retry, disc, chain, adv, key, form, pos, trades, price, multiHop>>
    \/ MetadataRejected(1) /\ calcWait' = 0 /\ UNCHANGED <<tokenInfo, fetch, quote, exec, retry, disc, chain, adv, key, form, pos, trades, price, multiHop>>
    \/ V4LiquidityResolved(1) /\ calcWait' = 0 /\ UNCHANGED <<tokenInfo, fetch, quote, exec, retry, disc, chain, adv, key, form, pos, trades, price, multiHop>>
    \/ V4QuoteResolved(1) /\ calcWait' = 0 /\ UNCHANGED <<tokenInfo, fetch, quote, exec, retry, disc, chain, adv, key, form, pos, trades, price, multiHop>>
    \/ V4SpotResolved(1) /\ calcWait' = 0 /\ UNCHANGED <<tokenInfo, fetch, quote, exec, retry, disc, chain, adv, key, form, pos, trades, price, multiHop>>
    \/ V4ImpactResolved(1) /\ calcWait' = 0 /\ UNCHANGED <<tokenInfo, fetch, quote, exec, retry, disc, chain, adv, key, form, pos, trades, price, multiHop>>
    \/ V3PoolResolved(1) /\ calcWait' = 0 /\ UNCHANGED <<tokenInfo, fetch, quote, exec, retry, disc, chain, adv, key, form, pos, trades, price, multiHop>>
    \/ V3QuoteResolved(1) /\ calcWait' = 0 /\ UNCHANGED <<tokenInfo, fetch, quote, exec, retry, disc, chain, adv, key, form, pos, trades, price, multiHop>>
    \/ FetchTokenInfo /\ UNCHANGED <<calcVars, quote, exec, retry, disc, chain, adv, key, form, pos, trades, price, multiHop>>
    \/ FetchResolved /\ UNCHANGED <<calcVars, quote, exec, retry, disc, chain, adv, key, form, pos, trades, price, multiHop>>
    \/ FetchRejected /\ UNCHANGED <<calcVars, quote, exec, retry, disc, chain, adv, key, form, pos, trades, price, multiHop>>
    \/ FetchTimedOut /\ UNCHANGED <<calcVars, quote, exec, retry, disc, chain, adv, key, form, pos, trades, price, multiHop>>
    \/ Tick /\ UNCHANGED <<calcVars, quote, exec, retry, disc, chain, adv, key, form, pos, trades, price, multiHop>>

TimedSpec == Init /\ [][TimedNext]_vars

\* quoting: the amounts of a route from a quote
QuoteSpecInit ==
    /\ CalcInit
    /\ TimerInit
    /\ QuoteInit
    /\ exec = IdleExec
    /\ retry = IdleRetry
    /\ disc = IdleDiscovery
    /\ multiHop = IdleMultiHop
    /\ price = IdlePrice
    /\ trades = IdleTrades
    /\ pos = IdlePosition
    /\ form = IdleForm
    /\ key = IdleKey
    /\ adv = IdleRouting
    /\ chain = NoChain

QuoteNext ==
    \/ BuildV4Route /\ UNCHANGED <<calcVars, timerVars, exec, retry, disc, chain, adv, key, form, pos, trades, price, multiHop>>
    \/ BuildV3Route /\ UNCHANGED <<calcVars, timerVars, exec, retry, disc, chain, adv, key, form, pos, trades, price, multiHop>>

QuoteSpec == QuoteSpecInit /\ [][QuoteNext]_vars

\* execution: executeTrade of the selected route
ExecNext ==
    \/ ExecuteTrade /\ UNCHANGED <<calcVars, timerVars, quote, retry, disc, chain, adv, key, form, pos, trades, price, multiHop>>
    \/ BalanceAnswered /\ UNCHANGED <<calcVars, timerVars, quote, retry, disc, chain, adv, key, form, pos, trades, price, multiHop>>
    \/ AllowanceAnswered /\ UNCHANGED <<calcVars, timerVars, quote, retry, disc, chain, adv, key, form, pos, trades, price, multiHop>>
    \/ ApproveAnswered /\ UNCHANGED <<calcVars, timerVars, quote, retry, disc, chain, adv, key, form, pos, trades, price, multiHop>>
    \/ ApproveConfirmed /\ UNCHANGED <<calcVars, timerVars, quote, retry, disc, chain, adv, key, form, pos, trades, price, multiHop>>
    \/ SwapAnswered /\ UNCHANGED <<calcVars, timerVars, quote, retry, disc, chain, adv, key, form, pos, trades, price, multiHop>>
    \/ GasEstimated /\ UNCHANGED <<calcVars, timerVars, quote, retry, disc, chain, adv, key, form, pos, trades, price, multiHop>>
    \/ ExecSettled /\ UNCHANGED <<calcVars, timerVars, quote, retry, disc, chain, adv, key, form, pos, trades, price, multiHop>>

ExecSpec == Init /\ [][ExecNext]_vars

\* retrying: retryTransaction around a position transaction
RetryNext ==
    \/ RetryTransaction /\ UNCHANGED <<calcVars, timerVars, quote, exec, disc, chain, adv, key, form, pos, trades, price, multiHop>>
    \/ FnResolved /\ UNCHANGED <<calcVars, timerVars, quote, exec, disc, chain, adv, key, form, pos, trades, price, multiHop>>
    \/ FnRejected /\ UNCHANGED <<calcVars, timerVars, quote, exec, disc, chain, adv, key, form, pos, trades, price, multiHop>>
    \/ BackoffElapsed /\ UNCHANGED <<calcVars, timerVars, quote, exec, disc, chain, adv, key, form, pos, trades, price, multiHop>>
    \/ RetrySettled /\ UNCHANGED <<calcVars, timerVars, quote, exec, disc, chain, adv, key, form, pos, trades, price, multiHop>>

RetrySpec == Init /\ [][RetryNext]_vars

\* discovery: findV4Pool and findBestPool on their own
DiscoveryNext ==
    \/ FindPool /\ UNCHANGED <<calcVars, timerVars, quote, exec, retry, chain, adv, key, form, pos, trades, price, multiHop>>
    \/ TierAnswered /\ UNCHANGED <<calcVars, timerVars, quote, exec, retry, chain, adv, key, form, pos, trades, price, multiHop>>
    \/ DiscoverySettled /\ UNCHANGED <<calcVars, timerVars, quote, exec, retry, chain, adv, key, form, pos, trades, price, multiHop>>

DiscoverySpec == Init /\ [][DiscoveryNext]_vars

\* advanced V3 routing: findAllV3Routes and selectBestRoute
RoutingNext ==
    \/ FindAllV3Routes /\ UNCHANGED <<calcVars, timerVars, quote, exec, retry, disc, chain, key, form, pos, trades, price, multiHop>>
    \/ CandidateAnswered /\ UNCHANGED <<calcVars, timerVars, quote, exec, retry, disc, chain, key, form, pos, trades, price, multiHop>>
    \/ SelectBestRoute /\ UNCHANGED <<calcVars, timerVars, quote, exec, retry, disc, chain, key, form, pos, trades, price, multiHop>>

RoutingSpec == Init /\ [][RoutingNext]_vars

\* the V4 pool key of a trade: discovery, quote, execution
KeyNext ==
    \/ V4KeyDiscovered /\ UNCHANGED <<calcVars, timerVars, quote, exec, retry, disc, chain, adv, form, pos, trades, price, multiHop>>
    \/ V4KeyQuoted /\ UNCHANGED <<calcVars, timerVars, quote, exec, retry, disc, chain, adv, form, pos, trades, price, multiHop>>
    \/ V4KeyExecuted /\ UNCHANGED <<calcVars, timerVars, quote, exec, retry, disc, chain, adv, form, pos, trades, price, multiHop>>

KeySpec == Init /\ [][KeyNext]_vars

\* the trade form: inputs of the user, the timer and the effects
FormNext ==
    \/ SetTokenAddress /\ UNCHANGED <<calcVars, timerVars, quote, exec, retry, disc, chain, adv, key, pos, trades, price, multiHop>>
    \/ SetAmount /\ UNCHANGED <<calcVars, timerVars, quote, exec, retry, disc, chain, adv, key, pos, trades, price, multiHop>>
    \/ HandleSwapMode /\ UNCHANGED <<calcVars, timerVars, quote, exec, retry, disc, chain, adv, key, pos, trades, price, multiHop>>
    \/ TimePasses /\ UNCHANGED <<calcVars, timerVars, quote, exec, retry, disc, chain, adv, key, pos, trades, price, multiHop>>
    \/ DebounceTimerFired /\ UNCHANGED <<calcVars, timerVars, quote, exec, retry, disc, chain, adv, key, pos, trades, price, multiHop>>
    \/ RouteOutputShown /\ UNCHANGED <<calcVars, timerVars, quote, exec, retry, disc, chain, adv, key, pos, trades, price, multiHop>>

FormSpec == Init /\ [][FormNext]_vars

\* the position operations
PositionNext ==
    \/ PositionCalled /\ UNCHANGED <<calcVars, timerVars, quote, exec, retry, disc, chain, adv, key, form, trades, price, multiHop>>
    \/ SimulationAnswered /\ UNCHANGED <<calcVars, timerVars, quote, exec, retry, disc, chain, adv, key, form, trades, price, multiHop>>
    \/ ExecuteAnswered /\ UNCHANGED <<calcVars, timerVars, quote, exec, retry, disc, chain, adv, key, form, trades, price, multiHop>>

PositionSpec == Init /\ [][PositionNext]_vars

\* the trades the user starts and the status shown for them
TradesNext ==
    \/ \E r \in Trades : ExecuteTradeCalled(r) /\ UNCHANGED <<calcVars, timerVars, quote, exec, retry, disc, chain, adv, key, form, pos, price, multiHop>>
    \/ \E r \in Trades : CallbackResolved(r) /\ UNCHANGED <<calcVars, timerVars, quote, exec, retry, disc, chain, adv, key, form, pos, price, multiHop>>
    \/ \E r \in Trades : CallbackRejected(r) /\ UNCHANGED <<calcVars, timerVars, quote, exec, retry, disc, chain, adv, key, form, pos, price, multiHop>>
    \/ \E r \in Trades : WaitResolved(r) /\ UNCHANGED <<calcVars, timerVars, quote, exec, retry, disc, chain, adv, key, form, pos, price, multiHop>>
    \/ \E r \in Trades : WaitRejected(r) /\ UNCHANGED <<calcVars, timerVars, quote, exec, retry, disc, chain, adv, key, form, pos, price, multiHop>>
    \/ ClearTimePasses /\ UNCHANGED <<calcVars, timerVars, quote, exec, retry, disc, chain, adv, key, form, pos, price, multiHop>>
    \/ \E r \in Trades : ClearTimerFired(r) /\ UNCHANGED <<calcVars, timerVars, quote, exec, retry, disc, chain, adv, key, form, pos, price, multiHop>>

TradesSpec == Init /\ [][TradesNext]_vars

\* the execution price of both versions for one quote
PriceNext ==
    \/ PricesAsked /\ UNCHANGED <<calcVars, timerVars, quote, exec, retry, disc, chain, adv, key, form, pos, trades, multiHop>>
    \/ V4PriceBuilt /\ UNCHANGED <<calcVars, timerVars, quote, exec, retry, disc, chain, adv, key, form, pos, trades, multiHop>>
    \/ V3PriceBuilt /\ UNCHANGED <<calcVars, timerVars, quote, exec, retry, disc, chain, adv, key, form, pos, trades, multiHop>>

PriceSpec == Init /\ [][PriceNext]_vars

\* a multi-hop V4 swap
MultiHopNext ==
    \/ ExecuteV4MultiHopSwap /\ UNCHANGED <<calcVars, timerVars, quote, exec, retry, disc, chain, adv, key, form, pos, trades, price>>
    \/ MultiHopAllowanceAnswered /\ UNCHANGED <<calcVars, timerVars, quote, exec, retry, disc, chain, adv, key, form, pos, trades, price>>
    \/ MultiHopExecuteAnswered /\ UNCHANGED <<calcVars, timerVars, quote, exec, retry, disc, chain, adv, key, form, pos, trades, price>>

MultiHopSpec == Init /\ [][MultiHopNext]_vars

\* repeated calculateTrade calls, identical inputs, a fixed chain
RepeatInit ==
    /\ \E left \in LeftBehind :
         /\ state = left.state
         /\ v4State = left.v4State
         /\ v3State = left.v3State
    /\ task = [r \in Req |-> IdleTask]
    /\ latest = 0
    /\ TimerInit
    /\ quote = IdleQuote
    /\ exec = IdleExec
    /\ retry = IdleRetry
    /\ disc = IdleDiscovery
    /\ multiHop = IdleMultiHop
    /\ price = IdlePrice
    /\ trades = IdleTrades
    /\ pos = IdlePosition
    /\ form = IdleForm
    /\ key = IdleKey
    /\ adv = IdleRouting
    /\ \E token \in Tokens, amount \in RepeatAmounts :
         chain = [NoChain EXCEPT !.token = token, !.amount = amount]

RepeatNext ==
    \/ \E r \in Req : RepeatCalculateTrade(r) /\ UNCHANGED <<timerVars, quote, exec, retry, disc, adv, key, form, pos, trades, price, multiHop>>
    \/ \E r \in Req : RepeatMetadata(r) /\ UNCHANGED <<timerVars, quote, exec, retry, disc, adv, key, form, pos, trades, price, multiHop>>
    \/ \E r \in Req : RepeatV4Liquidity(r) /\ UNCHANGED <<timerVars, quote, exec, retry, disc, adv, key, form, pos, trades, price, multiHop>>
    \/ \E r \in Req : RepeatV4Quote(r) /\ UNCHANGED <<timerVars, quote, exec, retry, disc, adv, key, form, pos, trades, price, multiHop>>
    \/ \E r \in Req : RepeatV4Spot(r) /\ UNCHANGED <<timerVars, quote, exec, retry, disc, adv, key, form, pos, trades, price, multiHop>>
    \/ \E r \in Req : RepeatV4Impact(r) /\ UNCHANGED <<timerVars, quote, exec, retry, disc, adv, key, form, pos, trades, price, multiHop>>
    \/ \E r \in Req : RepeatV3Pool(r) /\ UNCHANGED <<timerVars, quote, exec, retry, disc, adv, key, form, pos, trades, price, multiHop>>
    \/ \E r \in Req : RepeatV3Quote(r) /\ UNCHANGED <<timerVars, quote, exec, retry, disc, adv, key, form, pos, trades, price, multiHop>>
    \/ ClearTrade /\ UNCHANGED <<timerVars, quote, exec, retry, disc, chain, adv, key, form, pos, trades, price, multiHop>>

RepeatSpec == RepeatInit /\ [][RepeatNext]_vars

(***************************************************************************)
(* Properties of the routing specification Spec.                           *)
(***************************************************************************)
InFlight(r) == task[r].pc \notin {"idle", "rejected", "done"}

AtRest == \A r \in Req : ~InFlight(r)

AttemptFailed(a) == a \in {"selfpair", "nopool", "noquote"}

\* the message contains "V4" / contains "V3"
MentionsV4(msg) == msg \in {MsgNoV4Pool, MsgV4Decode, MsgBothFailed, MsgV4Default}
MentionsV3(msg) == msg \in {MsgNoV4Pool, MsgV4Range, MsgNoV3Pool, MsgBothFailed, MsgV3Default}

\* C1: when request A is issued and request B is issued before A resolves,
\* then once both have completed the trade state exposed (selectedRoute,
\* version, error) is the outcome of B, the request issued last: a result of A
\* arriving after B started never overwrites it.
C1_LatestRequestWins ==
    (AtRest /\ latest # 0) => Exposed(state) = Exposed(task[latest].outcome)

\* C2: in every run of calculateTrade the V4 attempt comes first; the V3
\* attempt is started only after the V4 attempt has ended without a route and
\* never when V4 produced a route; the version of the state names the
\* protocol that produced the selected route.
C2_V4FirstThenV3 ==
    /\ \A r \in Req :
         LET t == task[r] IN
         /\ t.v3 # "none" => AttemptFailed(t.v4)
         /\ t.v4 = "route" => t.v3 = "none" /\ t.calls \cap {"v3:discovery", "v3:quote"} = {}
         /\ t.v4 \in {"none", "running"} => t.calls \cap {"v3:discovery", "v3:quote"} = {}
         /\ (t.pc = "done" /\ t.outcome.version = "V4") =>
                t.v4 = "route" /\ t.outcome.selectedRoute.version = "V4"
         /\ (t.pc = "done" /\ t.outcome.version = "V3") =>
                t.v3 = "route" /\ t.outcome.selectedRoute.version = "V3"
    /\ state.selectedRoute # NullRoute => state.version = state.selectedRoute.version

C2_Witness ==
    \E r \in Req :
        /\ task[r].pc = "done" /\ task[r].v4 = "noquote" /\ task[r].v3 = "route"
        /\ state.version = "V3" /\ state.selectedRoute.version = "V3"

\* C3 as stated: when V4 discovery finds no pool at any fee tier and V3
\* discovery finds a pool with sufficient liquidity, calculateTrade ends with
\* a selected route tagged V3 and error = null.
C3_Original ==
    \A r \in Req :
        (task[r].pc = "done" /\ task[r].v4 = "nopool" /\ task[r].v3 \in {"noquote", "route"})
            => /\ task[r].outcome.version = "V3"
               /\ task[r].outcome.selectedRoute.version = "V3"
               /\ task[r].outcome.error = Null

\* C3 as amended: when V4 discovery finds no pool at any fee tier, V3
\* discovery finds a pool with sufficient liquidity and the V3 quote on that
\* pool succeeds, calculateTrade ends with the V3 route selected, tagged V3,
\* and error = null: the V4 failure is not reported.
C3_FallbackToV3 ==
    \A r \in Req :
        (task[r].pc = "done" /\ task[r].v4 = "nopool" /\ task[r].v3 = "route")
            => /\ task[r].outcome.version = "V3"
               /\ task[r].outcome.selectedRoute.version = "V3"
               /\ task[r].outcome.selectedRoute = task[r].outcome.fallbackRoute
               /\ task[r].outcome.error = Null

C3_Witness ==
    \E r \in Req :
        /\ task[r].pc = "done" /\ task[r].v4 = "nopool" /\ task[r].v3 = "route"
        /\ state = task[r].outcome /\ state.version = "V3"

\* C4: when both the V4 attempt and the V3 attempt fail to produce a route,
\* calculateTrade ends with no selected route, version = null,
\* isCalculating = false and one error message that names both protocol
\* versions, whatever the reason each attempt failed.
C4_BothFailNamesBoth ==
    \A r \in Req :
        (task[r].pc = "done" /\ AttemptFailed(task[r].v4) /\ AttemptFailed(task[r].v3))
            => /\ task[r].outcome.selectedRoute = NullRoute
               /\ task[r].outcome.version = Null
               /\ task[r].outcome.isCalculating = FALSE
               /\ task[r].outcome.error # Null
               /\ MentionsV4(task[r].outcome.error)
               /\ MentionsV3(task[r].outcome.error)

C4_Witness ==
    \E r \in Req :
        /\ task[r].pc = "done" /\ task[r].v4 = "noquote" /\ task[r].v3 = "nopool"
        /\ state = task[r].outcome /\ state.error = MsgBothFailed

\* C5: calculateTrade called with the WETH address as the selected token
\* fails with the self-pair error before any network call is made: no
\* metadata, discovery or quoting call is issued and the error surfaced is the
\* self-pair error.
C5_SelfPairFailsFast ==
    \A r \in Req :
        (task[r].token = WETH_ADDRESS /\ task[r].pc # "idle")
            => /\ task[r].calls = {}
               /\ task[r].pc = "done" => task[r].outcome.error = MsgSelfPair

\* C6: if the metadata lookup of calculateTrade fails, the calculation ends
\* with an error in the state and neither the V4 attempt nor the V3 attempt
\* is started.
C6_MetadataFailureIsTerminal ==
    \A r \in Req :
        task[r].meta = "failed"
            => /\ task[r].pc = "done"
               /\ task[r].outcome.error # Null
               /\ task[r].outcome.selectedRoute = NullRoute
               /\ task[r].v4 = "none" /\ task[r].v3 = "none"
               /\ task[r].calls = {"metadata"}

C6_Witness ==
    \E r \in Req :
        /\ task[r].meta = "failed" /\ task[r].pc = "done"
        /\ state = task[r].outcome /\ state.error = MsgDefault

\* C7: whenever no calculation is in flight the state satisfies exactly one
\* of: a route is present and error is null; an error is present and no route
\* is present; neither is present.  A route and an error are never present
\* together.
C7_RouteXorError ==
    AtRest =>
        LET hasRoute == state.selectedRoute # NullRoute
            hasError == state.error # Null
            one == IF hasRoute /\ ~hasError THEN 1 ELSE 0
            two == IF hasError /\ ~hasRoute THEN 1 ELSE 0
            three == IF ~hasRoute /\ ~hasError THEN 1 ELSE 0
        IN  one + two + three = 1 /\ ~(hasRoute /\ hasError)

C7_Witness ==
    /\ AtRest
    /\ \E r, q \in Req : r # q /\ task[r].outcome.selectedRoute # NullRoute
                         /\ task[q].pc = "done" /\ task[q].outcome.error # Null
    /\ state.error # Null /\ state.selectedRoute = NullRoute

(***************************************************************************)
(* Properties of the timed specification TimedSpec.                        *)
(***************************************************************************)
\* C8: a metadata lookup that does not answer is given up after the timeout
\* of about ten seconds, in fetchTokenInfo and in calculateTrade alike: no
\* lookup stays pending, with its busy flag set, for longer than the timeout.
C8_LookupsTimeOut ==
    /\ fetch.pc = "pending" => fetch.waited <= TimeoutSeconds
    /\ \A r \in Req : task[r].pc = "meta" => calcWait <= TimeoutSeconds

(***************************************************************************)
(* Properties of the quoting specification QuoteSpec.                      *)
(***************************************************************************)
\* C9: the minimumReceived of a route is never above its outputAmount, as
\* displayed, for a V3 and for a V4 route.
C9_MinimumNotAboveOutput ==
    quote.pc = "built" => FracLeq(quote.minimumReceived, quote.outputAmount)

(***************************************************************************)
(* Properties of the execution specification ExecSpec.                     *)
(***************************************************************************)
\* C10: the minimum amount out in the calldata of a submitted swap is the
\* quoted amount out times (1 - userSlippageBps / 10000), rounded to a whole
\* raw unit either way, for a V3 and for a V4 trade.
C10_UserSlippageEnforced ==
    exec.pc = "sent" =>
        LET exact == exec.amountOut * (10000 - slippageBips(exec.slippage))
        IN  /\ exec.minAmountOut * 10000 > exact - 10000
            /\ exec.minAmountOut * 10000 < exact + 10000

\* C11: the deadline argument of a submitted router call is the absolute
\* time now + deadlineMinutes * 60, now being the time of the submission and
\* deadlineMinutes the user's setting, for a V3 and for a V4 trade.
C11_DeadlineFromSubmission ==
    exec.pc = "sent" => exec.deadlineArg = exec.submittedAt + exec.deadline * 60

\* C12: in a sell whose allowance is below the input amount an approval is
\* asked for, and the router call is made only once the approval is confirmed:
\* never while it is asked for or unconfirmed, never after it was rejected or
\* has failed.  A sell makes no router call before its allowance is known.
C12_ApprovalBeforeSwap ==
    /\ exec.allowance = "short" => exec.approval # "none"
    /\ exec.approval \in {"asked", "sent", "rejected", "failed"} => exec.swapCalls = 0
    /\ (exec.version # Null /\ ~exec.isBuying /\ exec.swapCalls > 0) =>
           \/ exec.allowance = "enough" /\ exec.approval = "none"
           \/ exec.allowance = "short" /\ exec.approval = "confirmed"

\* a sell was submitted after its approval was confirmed
C12_Witness ==
    /\ exec.pc = "sent"
    /\ ~exec.isBuying
    /\ exec.allowance = "short"
    /\ exec.approval = "confirmed"
    /\ exec.swapCalls = 1

(***************************************************************************)
(* Properties of the retrying specification RetrySpec.                     *)
(***************************************************************************)
\* C13: retryTransaction invokes the operation at most maxRetries times (3
\* by default), returns the value of the first invocation that succeeds,
\* waits baseDelay * 2^i after the i-th failure (i from 0) before it invokes
\* again, and after a failure with code ACTION_REJECTED or INVALID_ARGUMENT
\* rethrows that error without another invocation.
C13_RetryWithBackoff ==
    /\ retry.calls <= retry.maxRetries
    /\ retry.pc = "returned" =>
           retry.result = retry.calls /\ Len(retry.errors) = retry.calls - 1
    /\ \A k \in 1..Len(retry.waits) :
           retry.waits[k] = retry.baseDelay * 2 ^ (k - 1)
    /\ retry.calls > 0 =>
           Len(retry.waits) = IF retry.pc = "waiting" THEN retry.calls ELSE retry.calls - 1
    /\ \A k \in 1..Len(retry.errors) :
           retry.errors[k] \in {"ACTION_REJECTED", "INVALID_ARGUMENT"} =>
               /\ k = Len(retry.errors)
               /\ retry.calls = k
               /\ retry.pc = "thrown"
               /\ retry.error = retry.errors[k]

\* with three attempts allowed, a network error was retried after the base
\* delay and the user's rejection of the second attempt was rethrown at once
C13_Witness ==
    /\ retry.pc = "thrown"
    /\ retry.maxRetries = DEFAULT_MAX_RETRIES
    /\ retry.baseDelay = DEFAULT_BASE_DELAY
    /\ retry.errors = <<"NETWORK_ERROR", "ACTION_REJECTED">>
    /\ retry.waits = <<DEFAULT_BASE_DELAY>>
    /\ retry.calls = 2

\* C14: a transaction whose submission fails with an error other than a
\* transient network error is not submitted again: every failed submission
\* that was followed by another submission failed with a network error.
C14_OnlyNetworkErrorsResubmitted ==
    \A k \in 1..Len(retry.errors) :
        k < retry.calls => retry.errors[k] = "NETWORK_ERROR"

(***************************************************************************)
(* Properties of the discovery specification DiscoverySpec.                *)
(***************************************************************************)
\* C15: discovery asks the fee tiers one at a time in the order medium, low,
\* high, lowest and returns the first tier in that order that qualifies; a
\* tier whose query fails does not qualify and the next one is asked; null is
\* returned exactly when no tier qualifies; no error reaches the caller.
C15_FirstQualifyingTier ==
    LET order == <<3000, 500, 10000, 100>>
        n == Len(disc.answers)
        passes(a) == a.answered /\ TierQualifies(disc.version, a)
    IN  /\ disc.pc \in {"idle", "asking", "found", "null"}
        /\ n <= 4
        /\ disc.pc = "asking" =>
               /\ disc.tier = n + 1
               /\ \A k \in 1..n : ~passes(disc.answers[k])
        /\ disc.pc = "found" =>
               /\ n >= 1
               /\ passes(disc.answers[n])
               /\ \A k \in 1..(n - 1) : ~passes(disc.answers[k])
               /\ disc.pool = [fee |-> order[n], liquidity |-> disc.answers[n].liquidity]
        /\ disc.pc = "null" =>
               /\ disc.provider => n = 4
               /\ \A k \in 1..n : ~passes(disc.answers[k])

\* the medium tier's query failed, the low tier was empty, the high tier's
\* pool was returned
C15_Witness ==
    /\ disc.pc = "found"
    /\ Len(disc.answers) = 3
    /\ ~disc.answers[1].answered
    /\ disc.answers[2].answered /\ disc.answers[2].liquidity = 0
    /\ disc.pool.fee = 10000

\* C16: discovery never returns a pool whose liquidity is zero or below
\* MIN_LIQUIDITY_THRESHOLD (1000), under V3 and under V4.
C16_NoThinPoolReturned ==
    disc.pc = "found" =>
        disc.pool.liquidity # 0 /\ disc.pool.liquidity >= 1000

(***************************************************************************)
(* C17: when the V4 quoter call returns without reverting, the             *)
(* outputAmount of the V4 route that results is the amount it returned.    *)
(***************************************************************************)
C17_ReturnedAmountIsTheOutput ==
    [][\A r \in Req :
          /\ task[r].pc = "v4impact" /\ task[r].returned > 0
          /\ task'[r].v4 = "route"
          => v4State'.route.outputAmount = task[r].returned]_vars

(***************************************************************************)
(* C18: when a V4 pool was found and the quoter failed in a way that is    *)
(* not the QuoteSwap revert (the spot price is what is left to ask for),   *)
(* the V4 attempt ends without a route (none is there to select) and the   *)
(* V3 attempt starts.                                                      *)
(***************************************************************************)
C18_NoSpotPriceRouteBeforeV3 ==
    [][\A r \in Req :
          /\ task[r].pc = "v4impact" /\ task[r].approximated
          /\ task'[r].pc # "v4impact"
          => task'[r].v4 = "noquote" /\ task'[r].v3 = "running"]_vars

(***************************************************************************)
(* C19: a calculateTrade call with an empty, zero or negative amount is    *)
(* rejected at once: it has issued no network call and the state's error   *)
(* slot holds the rejection when it returns.                               *)
(***************************************************************************)
C19_BadAmountSurfaced ==
    [][\A r \in Req :
          /\ task[r].pc = "idle" /\ task'[r].pc = "rejected"
          /\ task'[r].provider /\ amountIsRejected(task'[r].amount)
          => task'[r].calls = {} /\ state'.error # Null]_vars

(***************************************************************************)
(* C20: over a fixed chain, where a network call asked again is answered   *)
(* as before, two calculateTrade calls with the same token, amount and     *)
(* direction (the inputs RepeatSpec gives both calls) write the same       *)
(* version and the same selected route when they end, whatever state an    *)
(* earlier calculation, a clearTrade or the other call left behind.        *)
(***************************************************************************)
C20_SameInputsSameRoute ==
    \A r, q \in Req :
        /\ task[r].pc = "done" /\ task[q].pc = "done"
        /\ task[r].token = task[q].token
        => /\ task[r].outcome.version = task[q].outcome.version
           /\ task[r].outcome.selectedRoute = task[q].outcome.selectedRoute

\* two calls ended with a V3 route selected while the V4 hook still holds
\* the route an earlier calculation of another amount left
C20_Witness ==
    /\ \A r \in Req : task[r].pc = "done" /\ task[r].outcome.version = "V3"
    /\ chain.amount # LeftAmount
    /\ v4State.route = LeftV4Route

(***************************************************************************)
(* C21: an executeTrade call for an account that holds less than the input *)
(* amount (or, for a buy, less than the input amount and the gas buffer)   *)
(* submits neither an approval nor a swap, and where it has failed its     *)
(* error is the message that gives balance, required amount and shortage;  *)
(* for V3 routes and for V4 routes.                                        *)
(***************************************************************************)
C21_ShortBalanceFailsLocally ==
    /\ exec.pc # "idle"
    /\ exec.funds = "short" \/ (exec.isBuying /\ exec.funds = "noGas")
    => /\ exec.swapCalls = 0
       /\ exec.approval = "none"
       /\ exec.pc = "failed" => exec.error = MsgInsufficient

(***************************************************************************)
(* C22: selectBestRoute returns null for an empty list; for any other list *)
(* it returns a candidate of the list whose score no candidate exceeds,    *)
(* and of the candidates with that score the one found first.              *)
(***************************************************************************)
C22_BestIsFirstOfHighest ==
    adv.pc = "selected" =>
        IF Len(adv.routes) = 0
        THEN adv.best = NoCandidate
        ELSE /\ \E i \in 1..Len(adv.routes) : adv.routes[i] = adv.best
             /\ \A i \in 1..Len(adv.routes) :
                   /\ adv.routes[i].score <= adv.best.score
                   /\ adv.routes[i].score = adv.best.score => adv.best.found <= i

\* three candidates, the highest score shared by the second and the third
C22_Witness ==
    /\ adv.pc = "selected"
    /\ Len(adv.routes) = 3
    /\ adv.routes[1].score < adv.routes[2].score
    /\ adv.routes[2].score = adv.routes[3].score
    /\ adv.best.found = 2

(***************************************************************************)
(* C30: findAllV3Routes does not fail when a candidate throws (the search  *)
(* goes on); with maxHops <= 1 it holds direct candidates only; a two-hop  *)
(* candidate goes through a token that is neither tokenIn nor tokenOut.    *)
(***************************************************************************)
C30_CandidateErrorsAreSkipped ==
    /\ adv.pc # "failed"
    /\ adv.maxHops <= 1 => \A i \in 1..Len(adv.routes) : adv.routes[i].hops = 1
    /\ \A i \in 1..Len(adv.routes) :
          adv.routes[i].hops = 2 => adv.routes[i].via \notin {adv.tokenIn, adv.tokenOut}

\* a search in which a candidate threw has returned a direct and a two-hop
\* candidate
C30_Witness ==
    /\ adv.pc = "returned"
    /\ adv.threw
    /\ \E i, j \in 1..Len(adv.routes) : adv.routes[i].hops = 1 /\ adv.routes[j].hops = 2

(***************************************************************************)
(* C23: the pool keys built for discovery, for the quote and for execution *)
(* carry the same tick spacing, the table value of the fee tier (100: 1,   *)
(* 500: 10, 3000: 60, 10000: 200).                                         *)
(***************************************************************************)
C23_TickSpacingFromTheTable ==
    key.pc = "executed" =>
        /\ key.discovery.tickSpacing = feeToTickSpacing(key.discovery.fee)
        /\ key.quote.tickSpacing = key.discovery.tickSpacing
        /\ key.execution.tickSpacing = key.discovery.tickSpacing

(***************************************************************************)
(* C24: the three pool keys name the same two currencies in the same       *)
(* order, the lower address first when case is ignored, and the native     *)
(* currency is the sentinel address in each of them, never the WETH        *)
(* address.                                                                *)
(***************************************************************************)
C24_SameCurrenciesInCanonicalOrder ==
    key.pc = "executed" =>
        \A k \in {key.discovery, key.quote, key.execution} :
            /\ toLowerCase(k.currency0) = toLowerCase(key.discovery.currency0)
            /\ toLowerCase(k.currency1) = toLowerCase(key.discovery.currency1)
            /\ StringLess(toLowerCase(k.currency0), toLowerCase(k.currency1))
            /\ NATIVE_ETH_CHARS \in {k.currency0, k.currency1}
            /\ WETH_CHARS \notin {k.currency0, k.currency1}

(***************************************************************************)
(* C25: the command submitted for a V4 route holds three actions in this   *)
(* order: the exact-input swap, a settle naming the input currency of the  *)
(* swap and a take naming its output currency, in both directions.         *)
(***************************************************************************)
C25_SwapSettleTake ==
    key.pc = "executed" =>
        /\ Len(key.actions) = 3
        /\ key.actions[1].action = "SWAP_EXACT_IN_SINGLE"
        /\ key.actions[2] = [action |-> "SETTLE_ALL", currency |-> key.execTokenIn]
        /\ key.actions[3] = [action |-> "TAKE_ALL", currency |-> key.execTokenOut]

(***************************************************************************)
(* C26: once clearTrade has cleared the trade, and until the next          *)
(* calculateTrade call, no route is visible: a calculation that was in     *)
(* flight when the trade was cleared sets neither selectedRoute nor        *)
(* version when it completes.                                              *)
(***************************************************************************)
C26_ClearedTradeStaysCleared ==
    latest = 0 => state.selectedRoute = NullRoute /\ state.version = Null

(***************************************************************************)
(* C27: a calculateTrade call that a change of the amount, the direction   *)
(* or the token address starts is made only after the input has stayed     *)
(* unchanged for the debounce delay, and the changes made since the input  *)
(* last stayed unchanged that long start at most one call.                 *)
(***************************************************************************)
C27_CalculationsAreDebounced ==
    /\ form.burst <= 1
    /\ form.last # NoCall => form.calledAfter >= DEBOUNCE_MS

C29_DryRunMessageIsMappedOrGeneric ==
    pos.answer.kind = "error" =>
        pos.simulation.error =
            IF knownErrors(pos.answer.error.data) # Null
            THEN knownErrors(pos.answer.error.data)
            ELSE MsgWouldFail

(***************************************************************************)
(* C31: while a trade is in flight the status is 'loading'; the status     *)
(* becomes 'success' only by the step in which a confirmation wait         *)
(* resolves, and that step alone runs onSuccess, once per trade; a trade   *)
(* that fails sets the status to 'error' and never runs onSuccess; a timer *)
(* clears a 'success' status and never an 'error' status.                  *)
(***************************************************************************)
StatusFollowsTheTrade ==
    /\ (\E r \in Trades : TradeInFlight(r))' => trades'.txStatus.type = "loading"
    /\ \A r \in Trades :
         /\ trades'.call[r].onSuccess <= 1
         /\ trades'.call[r].onSuccess = 1 <=> trades'.call[r].outcome = "confirmed"
         /\ (trades.call[r].pc # "done" /\ trades'.call[r].outcome = "confirmed") =>
                /\ trades.call[r].pc = "waiting"
                /\ trades'.txStatus.type = "success"
         /\ (trades.call[r].pc # "done"
                 /\ trades'.call[r].outcome \in {"rejected", "reverted"}) =>
                /\ trades'.txStatus.type = "error"
                /\ trades'.call[r].timer = -1
    /\ (trades'.txStatus.type = "success" /\ trades.txStatus.type # "success") =>
           \E r \in Trades : trades.call[r].pc = "waiting" /\ trades'.call[r].pc = "done"
    /\ trades.txStatus.type = "error" => trades'.txStatus # NoStatus
    /\ (trades.txStatus.type = "success" /\ trades'.txStatus.type # "success") =>
           \/ trades'.txStatus = NoStatus /\ \E r \in Trades : trades.call[r].timer = 0
           \/ trades'.txStatus.type = "loading"

Live(r) == TradeInFlight(r) \/ trades.call[r].timer >= 0
\* at most one trade is live, and the status shown is the one it set
OneAtATime ==
    /\ \A r, q \in Trades : (Live(r) /\ Live(q)) => r = q
    /\ \A r \in Trades : Live(r) => trades.txStatus.of = r

C32_TimerSparesLaterTrades ==
    [][\A r \in Trades :
          (trades.call[r].timer = 0 /\ trades'.call[r].timer = -1
               /\ trades.txStatus.of # r)
              => trades'.txStatus = trades.txStatus]_vars

(***************************************************************************)
(* C33: while the calculateTrade call started last, and not cleared since, *)
(* is in flight, isCalculating of the state of useMultiVersionTrade is     *)
(* true.                                                                   *)
(***************************************************************************)
C33_CalculatingWhileLatestRuns ==
    (latest # 0 /\ InFlight(latest)) => state.isCalculating

(***************************************************************************)
(* C34: the minimumReceived of the selected route is the minimum amount    *)
(* out of the swap that executeTrade submits for it with the user's        *)
(* slippage setting, up to the rounding of the display (a millionth of a   *)
(* token and one raw unit), for a V3 and for a V4 route and for every      *)
(* slippage setting.                                                       *)
(***************************************************************************)
C34_ShownMinimumIsEnforced ==
    exec.pc = "sent" =>
        LET shown == exec.minimumReceived.n * (Pow10(ExecDecimals) \div exec.minimumReceived.d)
            rounding == Pow10(ExecDecimals - 6) + 1
        IN  /\ shown - exec.minAmountOut <= rounding
            /\ exec.minAmountOut - shown <= rounding

(***************************************************************************)
(* C35: in the state of useV4Trade and in the state of useV3Trade a route  *)
(* or a pool is never present together with an error.                      *)
(***************************************************************************)
C35_NoRouteBesideAnError ==
    /\ v4State.error # Null => v4State.route = NullRoute /\ v4State.poolInfo = NullPool
    /\ v3State.error # Null => v3State.route = NullRoute /\ v3State.pool = NullPool

(***************************************************************************)
(* C36: for the same input amount, output amount and direction the V4      *)
(* route and the V3 route report the same executionPrice.                  *)
(***************************************************************************)
C36_SameExecutionPrice ==
    (price.v4 # NoAmount /\ price.v3 # NoAmount) => SamePrice(price.v4, price.v3)

(***************************************************************************)
(* C37: executeV4MultiHopSwap throws for a path of fewer than 2 tokens or  *)
(* with a fees array whose length is not the number of tokens minus 1,     *)
(* with no action built and no network call made; for every other path it  *)
(* plans one swap per hop in path order, then a settle of the first token, *)
(* then a take of the last token, and the swap of the last hop carries the *)
(* caller's amountOutMinimum.                                              *)
(***************************************************************************)
C37_MultiHopPlan ==
    multiHop.pc # "idle" =>
        LET n == Len(multiHop.tokens) IN
        IF n < 2 \/ Len(multiHop.fees) # n - 1
        THEN multiHop.pc = "thrown" /\ multiHop.actions = <<>> /\ multiHop.calls = <<>>
        ELSE /\ Len(multiHop.actions) = n + 1
             /\ \A i \in 1..(n - 1) :
                  /\ multiHop.actions[i].action = "SWAP_EXACT_IN_SINGLE"
                  /\ multiHop.actions[i].tokenIn = multiHop.tokens[i]
                  /\ multiHop.actions[i].tokenOut = multiHop.tokens[i + 1]
                  /\ multiHop.actions[i].fee = multiHop.fees[i]
             /\ multiHop.actions[n].action = "SETTLE_ALL"
             /\ multiHop.actions[n].currency = multiHop.tokens[1]
             /\ multiHop.actions[n + 1].action = "TAKE_ALL"
             /\ multiHop.actions[n + 1].currency = multiHop.tokens[n]
             /\ multiHop.actions[n - 1].amountOutMinimum = multiHop.amountOutMinimum

=============================================================================
